---- MODULE Spec2Model ----
(***************************************************************************)
(* A model of the single-tree duplicate finder of "Walk example/walk4a.go". *)
(*                                                                         *)
(* The program walks a directory tree with one goroutine per directory     *)
(* (walkDir) and one per file (process), all gated by one buffered channel *)
(* used as a counting semaphore (limits), joined by a sync.WaitGroup (wg)  *)
(* and fanned in to one collector goroutine (collect) over the channel     *)
(* pairs.  searchTree is the orchestrator.                                 *)
(*                                                                         *)
(* The file system is a fixed tree shape whose file contents, and at most  *)
(* one failing system call, are chosen in Init.                            *)
(***************************************************************************)
EXTENDS Integers, Sequences, FiniteSets, TLC

\* ------------------------------------------------------------------ bounds

\* File contents are 0..MaxContent; content 0 is the empty byte string.
MaxContent == 2

\* searchTree is run with nworkers in 1..MaxWorkers.
MaxWorkers == 2

\* ------------------------------------------------------------- error values

\* Go error values.  Nil is the nil error; the others are distinct non-nil values.
Nil == [type |-> "nil", err |-> ""]

\* filepath.SkipDir, a sentinel made by errors.New.
SkipDir == [type |-> "errorString", err |-> "skip this directory"]

\* os.ErrNotExist, a sentinel made by errors.New.
ErrNotExist == [type |-> "errorString", err |-> "file does not exist"]

\* What os.Lstat, os.Open and File.Readdirnames return on failure: a *PathError
\* wrapping the errno.  It is never the bare sentinel os.ErrNotExist.
PathError(errno) == [type |-> "PathError", err |-> errno]

Errnos == {"ENOENT", "EACCES"}

\* ------------------------------------------------------------- file system

\* A file name, split the way filepath.Ext splits it at the final dot.
FileName(stem, ext) == [stem |-> stem, ext |-> ext]

Root == "r"

\* The tree.  entries is the directory's listing in the sorted order
\* readDirNames returns it in.
\*   r/.DS_Store   r/a/   r/a/g.git/   r/a/g.git/i   r/a/s -> (symlink)
\*   r/a/x         r/y
\* and, in the runs on the deeper tree only, the empty directory r/a/z/.
FS ==
  [ r  |-> [parent |-> "r", name |-> FileName("r", ""), kind |-> "dir",
            entries |-> <<"ds", "a", "y">>],
    ds |-> [parent |-> "r", name |-> FileName("", ".DS_Store"), kind |-> "file",
            entries |-> <<>>],
    a  |-> [parent |-> "r", name |-> FileName("a", ""), kind |-> "dir",
            entries |-> <<"g", "s", "x", "z">>],
    y  |-> [parent |-> "r", name |-> FileName("y", ""), kind |-> "file",
            entries |-> <<>>],
    g  |-> [parent |-> "a", name |-> FileName("g", ".git"), kind |-> "dir",
            entries |-> <<"i">>],
    s  |-> [parent |-> "a", name |-> FileName("s", ""), kind |-> "symlink",
            entries |-> <<>>],
    x  |-> [parent |-> "a", name |-> FileName("x", ""), kind |-> "file",
            entries |-> <<>>],
    i  |-> [parent |-> "g", name |-> FileName("i", ""), kind |-> "file",
            entries |-> <<>>],
    z  |-> [parent |-> "a", name |-> FileName("z", ""), kind |-> "dir",
            entries |-> <<>>] ]

Nodes == DOMAIN FS
Dirs == {n \in Nodes : FS[n].kind = "dir"}
Files == {n \in Nodes : FS[n].kind = "file"}

\* The files whose content Init chooses; the others hold content 1.
FreeFiles == {"x", "y"}

Contents == 0..MaxContent

\* The names the directory given to searchTree can have: a plain one, and one
\* whose extension is in ignoreDirExts.
RootNames == {FS[Root].name, FileName("r", ".git")}

VARIABLES
  rootName,     \* the name of the directory given to searchTree
  deep          \* the tree holds the directory r/a/z

\* What readDirNames(d) returns.
Entries(d) ==
  IF deep THEN FS[d].entries ELSE SelectSeq(FS[d].entries, LAMBDA e : e # "z")

\* The files and directories of the tree.
Present == IF deep THEN Nodes ELSE Nodes \ {"z"}

RECURSIVE Path(_)
\* The path filepath.Walk hands to visit: the root as given, below it
\* filepath.Join(parent, name).
Path(n) == IF n = Root THEN <<rootName>> ELSE Append(Path(FS[n].parent), FS[n].name)

\* filepath.Ext(p): the extension of the last element.
Ext(p) == p[Len(p)].ext

\* filepath.Base(p): the last element.
Base(p) == p[Len(p)]

\* The system calls of a run that can fail.
\*   walk_lstat    os.Lstat(root) at the start of filepath.Walk(dir, ...)
\*   walk_readdir  readDirNames(dir) of the directory being walked
\*   entry_lstat   lstat of one listed entry
\*   entry_readdir readDirNames of a listed subdirectory, read before visit sees it
\*   open          os.Open in hashFile
\*   read          io.Copy in hashFile
Sites == {"walk_lstat", "walk_readdir", "entry_lstat", "entry_readdir", "open", "read"}

NoFault == [node |-> "-", site |-> "-", errno |-> "-"]

\* The faults a node can suffer: a directory fails where it is listed or walked, a
\* file where it is listed, opened or read; the root is never a listed entry.
Faults ==
  {f \in [node : Present, site : Sites, errno : Errnos] :
     /\ f.site \in {"walk_lstat", "walk_readdir"} => FS[f.node].kind = "dir"
     /\ f.site = "entry_readdir" => FS[f.node].kind = "dir"
     /\ f.site \in {"entry_lstat", "entry_readdir"} => f.node # Root
     /\ f.site \in {"open", "read"} => FS[f.node].kind = "file"
     /\ f.site = "read" => f.errno = "EACCES"}

\* --------------------------------------------------------------- ignore sets

ignoreDirExts ==
  {".app", ".pkg", ".git", ".lproj", ".pbproj", ".xcassets", ".framework",
   ".xcodeproj", ".xcworkspace", ".xcdatamodel"}

ignoreDirs == {}

ignoreFiles == {FileName("", ".DS_Store"), FileName("", ".gitignore")}

\* ---------------------------------------------------------------- variables

VARIABLES
  content,      \* [Files -> Contents]: the bytes of each file
  nworkers,     \* searchTree's nworkers
  fault,        \* the one system call that fails in this run, or NoFault
  wg,           \* the WaitGroup counter
  limits,       \* number of tokens in the buffered channel limits
  pairs,        \* the buffered channel pairs: a queue of pair records
  pairsClosed,  \* close(pairs) has happened
  hashes,       \* collect's local map hash -> fileList
  final,        \* searchTree's variable hashes, set by hashes := <-result
  opc,          \* searchTree's position
  cpc,          \* collect's position
  tpc,          \* [Nodes -> position] of the walkDir / process call for each path
  widx,         \* [Dirs -> index] of the next entry of the directory's walk
  werr,         \* [Dirs -> error] the value walkDir returned
  aborted,      \* log.Fatal was called: the process has exited
  panic,        \* "none", or the message of the run-time panic that ended the process
  nsent,        \* history: [Files -> number of pairs sent for the path]
  seen,         \* history: the walkers and hashers that met the fault
  main4a        \* main of walk4a: the flag -d, its position and what it printed

\* The state of the two-tree program (the first program of README.md).
VARIABLES
  env,          \* its inputs: the command line and the bytes of each file
  main,         \* the locals of main and its position
  sharedLimits, \* number of tokens in main's channel limits, shared by both searches
  tree,         \* [1..2 -> the state of searchTree1 / searchTree2 and its collector]
  task          \* [1..2 -> [path -> the walkDir / processFile call for it]]

\* The state of the worker-pool program (walk2.go).
VARIABLES
  walk2         \* searchTree's channels, the WaitGroup and every goroutine's position

vars == <<rootName, deep, main4a, content, nworkers, fault, wg, limits, pairs, pairsClosed, hashes, final,
          opc, cpc, tpc, widx, werr, aborted, panic, nsent, seen,
          env, main, sharedLimits, tree, task, walk2>>

\* The variables no step of walk2 changes.
frameW2 == <<rootName, deep, main4a, content, nworkers, fault, wg, limits, pairs, pairsClosed, hashes,
             final, opc, cpc, tpc, widx, werr, aborted, panic, nsent, seen,
             env, main, sharedLimits, tree, task>>

\* The variables no step of walk4a changes besides content, nworkers and fault.
frame4a == <<rootName, deep, main4a, env, main, sharedLimits, tree, task, walk2>>

\* The variables no step of the two-tree program changes.
frame2 == <<rootName, deep, main4a, content, nworkers, fault, wg, limits, pairs, pairsClosed, hashes,
            final, opc, cpc, tpc, widx, werr, aborted, panic, nsent, seen, walk2>>

\* The elements of sequence q.
Range(q) == {q[j] : j \in 1..Len(q)}

\* make(results): the map with no keys.
EmptyMap == [k \in {} |-> <<>>]

\* The process is still running.
Alive == ~aborted /\ panic = "none"

\* ------------------------------------------------------------ pure helpers

\* The system call at site on node n fails in this run.
Fails(n, site) == fault.node = n /\ fault.site = site

\* The error of the system call at site on node n: nil, or a *PathError.
SysErr(n, site) == IF Fails(n, site) THEN PathError(fault.errno) ELSE Nil

\* fi.Size(): content k stands for a byte string of k bytes.
Size(n) == content[n]

\* Mutant of MD5Sum: the io.Copy into the hash is missing, so every file gets
\* the digest of no bytes.
MD5SumNoCopy(n) == <<"md5", 0>>

\* md5 of the file's bytes, formatted with %x.  Distinct contents have distinct
\* digests (collisions are out of scope).
MD5Sum(n) == <<"md5", content[n]>>

\* The pair hashFile returns for path n.
HashPair(n) == [hash |-> MD5Sum(n), path |-> Path(n)]

\* Mutant of Visit: the test of ignoreDirExts is missing.
VisitNoExtCheck(dir, e, err) ==
  IF err # Nil
    THEN [ret |-> IF err = ErrNotExist THEN Nil ELSE err, spawn |-> "none"]
  ELSE IF FS[e].kind = "dir" /\ Path(e) # Path(dir)
    THEN IF Path(e) \in ignoreDirs THEN [ret |-> SkipDir, spawn |-> "none"]
         ELSE [ret |-> SkipDir, spawn |-> "walkDir"]
  ELSE IF FS[e].kind = "file" /\ Size(e) > 0
    THEN IF Base(Path(e)) \notin ignoreFiles
           THEN [ret |-> Nil, spawn |-> "process"]
           ELSE [ret |-> Nil, spawn |-> "none"]
  ELSE [ret |-> Nil, spawn |-> "none"]

\* Mutant of Visit: the test fi.Size() > 0 is missing.
VisitNoSizeCheck(dir, e, err) ==
  IF err # Nil
    THEN [ret |-> IF err = ErrNotExist THEN Nil ELSE err, spawn |-> "none"]
  ELSE IF FS[e].kind = "dir" /\ Path(e) # Path(dir)
    THEN IF Ext(Path(e)) \in ignoreDirExts THEN [ret |-> SkipDir, spawn |-> "none"]
         ELSE IF Path(e) \in ignoreDirs THEN [ret |-> SkipDir, spawn |-> "none"]
         ELSE [ret |-> SkipDir, spawn |-> "walkDir"]
  ELSE IF FS[e].kind = "file"
    THEN IF Base(Path(e)) \notin ignoreFiles
           THEN [ret |-> Nil, spawn |-> "process"]
           ELSE [ret |-> Nil, spawn |-> "none"]
  ELSE [ret |-> Nil, spawn |-> "none"]

\* The closure visit of walkDir(dir, ...), called on entry e with error err.
\* ret is its return value; spawn says which goroutine it started after wg.Add(1).
Visit(dir, e, err) ==
  IF err # Nil
    THEN [ret |-> IF err = ErrNotExist THEN Nil ELSE err, spawn |-> "none"]
  ELSE IF FS[e].kind = "dir" /\ Path(e) # Path(dir)
    THEN IF Ext(Path(e)) \in ignoreDirExts THEN [ret |-> SkipDir, spawn |-> "none"]
         ELSE IF Path(e) \in ignoreDirs THEN [ret |-> SkipDir, spawn |-> "none"]
         ELSE [ret |-> SkipDir, spawn |-> "walkDir"]
  ELSE IF FS[e].kind = "file" /\ Size(e) > 0
    THEN IF Base(Path(e)) \notin ignoreFiles
           THEN [ret |-> Nil, spawn |-> "process"]
           ELSE [ret |-> Nil, spawn |-> "none"]
  ELSE [ret |-> Nil, spawn |-> "none"]

\* The start of filepath.Walk(d, visit): Lstat of the root, then walk(root): the
\* directory is listed and visit is called on the root itself.  stop says Walk
\* returns now, with value ret (SkipDir from the root is turned into nil).
WalkRoot(d) ==
  LET err == IF Fails(d, "walk_lstat") THEN SysErr(d, "walk_lstat")
             ELSE SysErr(d, "walk_readdir")
      v == Visit(d, d, err)
  IN [visit |-> v,
      stop |-> err # Nil \/ v.ret # Nil,
      ret |-> IF v.ret = SkipDir THEN Nil ELSE v.ret]

\* One iteration of walk's loop over the listing of d, on entry e: lstat(e), and
\* walk(e), which for a directory lists it before it calls visit and returns
\* what visit returns when that is non-nil (visit returns SkipDir for every
\* directory but the root, so walk never descends).
WalkOne(d, e) ==
  LET lerr == SysErr(e, "entry_lstat")
      rerr == IF lerr = Nil /\ FS[e].kind = "dir" THEN SysErr(e, "entry_readdir") ELSE Nil
      err == IF lerr # Nil THEN lerr ELSE rerr
      v == Visit(d, e, err)
      isDir == lerr = Nil /\ FS[e].kind = "dir"
  IN [visit |-> v,
      stop |-> IF lerr # Nil THEN v.ret # Nil /\ v.ret # SkipDir
               ELSE v.ret # Nil /\ (~isDir \/ v.ret # SkipDir),
      ret |-> v.ret]

\* Mutant of HashFatal: hashFile returns after an error.
HashFatalNever(n) == FALSE

\* hashFile(path): TRUE when it ends in log.Fatal.  An open error that is not
\* os.ErrNotExist is fatal; with os.ErrNotExist the nil file is copied from, which
\* fails and is fatal too; a read error is fatal.
HashFatal(n) ==
  LET oerr == SysErr(n, "open")
  IN \/ oerr # Nil /\ oerr # ErrNotExist
     \/ oerr # Nil /\ oerr = ErrNotExist
     \/ SysErr(n, "read") # Nil

\* The orders in which range can visit the keys of a map.
Orders(S) ==
  {o \in [1..Cardinality(S) -> S] : \A j, k \in DOMAIN o : j # k => o[j] # o[k]}

\* Mutant of PrintsGroup: -d has no effect.
PrintsGroupAlways(files, dup) == TRUE

\* main's test (len(files) > 1) || !*dupFlag.
PrintsGroup(files, dup) == Len(files) > 1 \/ ~dup

RECURSIVE PrintAll(_, _, _)
\* What main's loop for hash, files := range hashes prints, visiting the keys
\* in order: per group the digest, len(files) and the files.
PrintAll(order, m, dup) ==
  IF order = <<>> THEN <<>>
  ELSE (IF PrintsGroup(m[Head(order)], dup)
          THEN <<[hash |-> Head(order), count |-> Len(m[Head(order)]),
                  files |-> m[Head(order)]]>>
          ELSE <<>>) \o PrintAll(Tail(order), m, dup)

\* Mutant of CanAcquire: the send on limits never blocks.
CanAcquireUnbounded == TRUE

\* limits <- true can proceed: the buffered channel of capacity nworkers has room.
CanAcquire == limits < nworkers

\* pairs <- p can proceed: the buffered channel of capacity nworkers has room.
CanSend == Len(pairs) < nworkers

\* Mutant of WaitReturns: searchTree does not wait for the counter.
WaitReturnsAtOnce == TRUE

\* wg.Wait() returns.
WaitReturns == wg = 0

\* Mutant of AddOnSpawn: visit leaves the wg.Add(1) to the spawned goroutine.
AddOnSpawnNever(v) == wg

\* Mutant of AddOnSpawn: the wg.Add(1) before go process is missing.
AddOnSpawnWalkOnly(v) == IF v.spawn = "walkDir" THEN wg + 1 ELSE wg

\* The counter after visit's wg.Add(1) before each go statement.
AddOnSpawn(v) == IF v.spawn # "none" THEN wg + 1 ELSE wg

\* Mutant of Insert: the path is inserted, not appended: hashes[pair.hash] =
\* fileList{pair.path}.
InsertOverwrite(m, p) ==
  [k \in DOMAIN m \cup {p.hash} |-> IF k = p.hash THEN <<p.path>> ELSE m[k]]

\* Mutant of Insert: the map is made anew for every pair.
InsertDropsOthers(m, p) ==
  [k \in {p.hash} |-> IF p.hash \in DOMAIN m THEN Append(m[p.hash], p.path)
                      ELSE <<p.path>>]

\* Mutant of RangeEnds: the loop ends as soon as no pair is waiting.
RangeEndsWhenEmpty == pairs = <<>>

\* for pair := range pairs ends: pairs is closed and drained.
RangeEnds == pairs = <<>> /\ pairsClosed

\* collect's map after hashes[pair.hash] = append(hashes[pair.hash], pair.path).
Insert(m, p) ==
  IF p.hash \in DOMAIN m
    THEN [m EXCEPT ![p.hash] = Append(@, p.path)]
    ELSE [k \in DOMAIN m \cup {p.hash} |-> IF k = p.hash THEN <<p.path>> ELSE m[k]]

\* ------------------------------------------- two-tree program: file system

\* The working directory of the two-tree program.
\*   ./a/p   ./a/r   ./b/q
Cwd == "cwd"

TFS ==
  [ cwd |-> [parent |-> "cwd", name |-> FileName("", "."), kind |-> "dir",
             entries |-> <<"a", "b">>],
    a   |-> [parent |-> "cwd", name |-> FileName("a", ""), kind |-> "dir",
             entries |-> <<"p", "r">>],
    b   |-> [parent |-> "cwd", name |-> FileName("b", ""), kind |-> "dir",
             entries |-> <<"q">>],
    p   |-> [parent |-> "a", name |-> FileName("p", ""), kind |-> "file",
             entries |-> <<>>],
    r   |-> [parent |-> "a", name |-> FileName("r", ""), kind |-> "file",
             entries |-> <<>>],
    q   |-> [parent |-> "b", name |-> FileName("q", ""), kind |-> "file",
             entries |-> <<>>] ]

TNodes == DOMAIN TFS
TDirs == {n \in TNodes : TFS[n].kind = "dir"}
TFiles == {n \in TNodes : TFS[n].kind = "file"}

\* A path string of the two-tree program is the sequence of its pieces: stems,
\* extensions and separators.  No piece in use is a prefix of another, so
\* strings.HasPrefix is the prefix relation on these sequences.
Pieces(name) ==
  (IF name.stem # "" THEN <<name.stem>> ELSE <<>>) \o
  (IF name.ext # "" THEN <<name.ext>> ELSE <<>>)

RECURSIVE TPath(_)
\* The path of n as the program sees it: relative to the working directory and
\* clean, as filepath.Join leaves it.
TPath(n) ==
  IF n = Cwd THEN <<".">>
  ELSE IF TFS[n].parent = Cwd THEN Pieces(TFS[n].name)
  ELSE TPath(TFS[n].parent) \o <<"/">> \o Pieces(TFS[n].name)

\* The name the system resolves a path by: a separator at its end is dropped.
Resolve(path) ==
  IF Len(path) > 1 /\ path[Len(path)] = "/" THEN SubSeq(path, 1, Len(path) - 1)
  ELSE path

\* The directory or file a path names.
NodeOf(path) == CHOOSE n \in TNodes : TPath(n) = Resolve(path)

\* main's locals before flag.Parse.
MainInit ==
  [pc |-> "parse", searchDir1 |-> <<".">>, searchDir2 |-> <<".">>,
   useOneDir |-> FALSE, nworkers |-> 0,
   dir1Hashes |-> EmptyMap, dir2Hashes |-> EmptyMap, out |-> <<>>]

\* Neither searchTree1 nor searchTree2 has been called.
TreeInit ==
  [s \in 1..2 |-> [wg |-> 0, files |-> <<>>, closed |-> FALSE, hashes |-> EmptyMap,
                   spc |-> "none", cpc |-> "none"]]

\* No walkDir or processFile call has been made.
TaskInit == [s \in 1..2 |-> [n \in TNodes |-> [pc |-> "none", idx |-> 0]]]

\* runtime.GOMAXPROCS(0) on a machine with one processor.
GOMAXPROCS == 1

\* workers := 4 * runtime.GOMAXPROCS(0)
workers == 4 * GOMAXPROCS

\* The state of walk2 before searchTree is called.
Walk2None ==
  [pc |-> "none", i |-> 0, wg |-> 0,
   in |-> <<>>, inClosed |-> FALSE, out |-> <<>>, outClosed |-> FALSE, done |-> 0,
   hashes |-> EmptyMap, final |-> EmptyMap, cpc |-> "none",
   ppc |-> [k \in 1..workers |-> "none"], path |-> [k \in 1..workers |-> <<>>],
   dpc |-> [d \in Dirs |-> "none"], idx |-> [d \in Dirs |-> 0],
   err |-> [d \in Dirs |-> Nil],
   aborted |-> FALSE, panic |-> "none",
   fed |-> [f \in Files |-> 0], signals |-> [k \in 1..workers |-> 0]]

\* The worker-pool program is not run.
Walk2Idle == walk2 = Walk2None

\* The two-tree program is not run.
TwoTreeIdle ==
  /\ env = [args |-> <<>>, dupFlag |-> FALSE, ignoreDirs |-> {},
            content |-> [n \in TFiles |-> 1]]
  /\ main = [MainInit EXCEPT !.pc = "none"]
  /\ sharedLimits = 0
  /\ tree = TreeInit
  /\ task = TaskInit

\* ------------------------------------------------------------------- Init

\* The state searchTree starts in, for every input but the root's name.
InitRun ==
  /\ content \in {c \in [Files -> Contents] : \A n \in Files \ FreeFiles : c[n] = 1}
  /\ nworkers \in 1..MaxWorkers
  /\ fault \in Faults \cup {NoFault}
  /\ wg = 0
  /\ limits = 0
  /\ pairs = <<>>
  /\ pairsClosed = FALSE
  /\ hashes = EmptyMap
  /\ final = EmptyMap
  /\ opc = "start"
  /\ cpc = "range"
  /\ tpc = [n \in Nodes |-> "none"]
  /\ widx = [d \in Dirs |-> 0]
  /\ werr = [d \in Dirs |-> Nil]
  /\ aborted = FALSE
  /\ panic = "none"
  /\ nsent = [n \in Files |-> 0]
  /\ seen = {}

\* main of walk4a is not modelled: searchTree is called on its own.
MainIdle == main4a = [dupFlag |-> FALSE, pc |-> "none", out |-> <<>>]

\* searchTree is called on a directory with a plain name.
Init == rootName = FS[Root].name /\ deep = FALSE /\ MainIdle /\ InitRun /\ TwoTreeIdle /\ Walk2Idle

\* searchTree is called on a directory with any of the names RootNames.
InitAnyRoot ==
  rootName \in RootNames /\ deep = FALSE /\ MainIdle /\ InitRun /\ TwoTreeIdle /\ Walk2Idle

\* ------------------------------------------------------------- searchTree

\* go collect(pairs, result); wg.Add(1); the call of walkDir(dir, ...) begins.
Start ==
  /\ Alive /\ opc = "start"
  /\ opc' = "walk"
  /\ wg' = wg + 1
  /\ tpc' = [tpc EXCEPT ![Root] = "acquire"]
  /\ UNCHANGED frame4a
  /\ UNCHANGED <<content, nworkers, fault, limits, pairs, pairsClosed, hashes, final,
                 cpc, widx, werr, aborted, panic, nsent, seen>>

\* walkDir(dir, ...) has returned: if err != nil { log.Fatal(err) }.
CheckErr ==
  /\ Alive /\ opc = "walk" /\ tpc[Root] = "end"
  /\ IF werr[Root] # Nil
       THEN aborted' = TRUE /\ opc' = opc
       ELSE aborted' = aborted /\ opc' = "wait"
  /\ UNCHANGED frame4a
  /\ UNCHANGED <<content, nworkers, fault, wg, limits, pairs, pairsClosed, hashes,
                 final, cpc, tpc, widx, werr, panic, nsent, seen>>

\* wg.Wait()
Wait ==
  /\ Alive /\ opc = "wait"
  /\ WaitReturns
  /\ opc' = "close"
  /\ UNCHANGED frame4a
  /\ UNCHANGED <<content, nworkers, fault, wg, limits, pairs, pairsClosed, hashes,
                 final, cpc, tpc, widx, werr, aborted, panic, nsent, seen>>

\* close(pairs)
Close ==
  /\ Alive /\ opc = "close"
  /\ pairsClosed' = TRUE
  /\ opc' = "recv"
  /\ UNCHANGED frame4a
  /\ UNCHANGED <<content, nworkers, fault, wg, limits, pairs, hashes, final, cpc,
                 tpc, widx, werr, aborted, panic, nsent, seen>>

\* ------------------------------------------------------------------ collect

\* One iteration of for pair := range pairs.
Collect ==
  /\ Alive /\ cpc = "range"
  /\ pairs # <<>>
  /\ hashes' = Insert(hashes, Head(pairs))
  /\ pairs' = Tail(pairs)
  /\ UNCHANGED frame4a
  /\ UNCHANGED <<content, nworkers, fault, wg, limits, pairsClosed, final, opc, cpc,
                 tpc, widx, werr, aborted, panic, nsent, seen>>

\* The range loop ends: pairs is closed and drained.
CollectEnd ==
  /\ Alive /\ cpc = "range"
  /\ RangeEnds
  /\ cpc' = "result"
  /\ UNCHANGED frame4a
  /\ UNCHANGED <<content, nworkers, fault, wg, limits, pairs, pairsClosed, hashes,
                 final, opc, tpc, widx, werr, aborted, panic, nsent, seen>>

\* result <- hashes meets hashes := <-result on the unbuffered channel result.
Deliver ==
  /\ Alive /\ cpc = "result" /\ opc = "recv"
  /\ final' = hashes
  /\ cpc' = "end"
  /\ opc' = "done"
  /\ UNCHANGED frame4a
  /\ UNCHANGED <<content, nworkers, fault, wg, limits, pairs, pairsClosed, hashes,
                 tpc, widx, werr, aborted, panic, nsent, seen>>

\* ------------------------------------------------------------------ walkDir

\* limits <- true, at the head of walkDir's body (the defer is already set).
WalkAcquire(d) ==
  /\ Alive /\ tpc[d] = "acquire"
  /\ CanAcquire
  /\ limits' = limits + 1
  /\ tpc' = [tpc EXCEPT ![d] = "walk"]
  /\ UNCHANGED frame4a
  /\ UNCHANGED <<content, nworkers, fault, wg, pairs, pairsClosed, hashes, final, opc,
                 cpc, widx, werr, aborted, panic, nsent, seen>>

\* Mutant of VisitEffect: visit calls walkDir and process instead of starting
\* goroutines, so it goes on only when the calls it made before have ended.
VisitEffectSynchronous(d, e, w, last) ==
  /\ \A c \in Range(FS[d].entries) : tpc[c] \in {"none", "end"}
  /\ wg' = AddOnSpawn(w.visit)
  /\ tpc' = [n \in Nodes |->
               IF n = d /\ (w.stop \/ last) THEN "release"
               ELSE IF n = e /\ w.visit.spawn # "none" THEN "acquire"
               ELSE tpc[n]]
  /\ werr' = [werr EXCEPT ![d] = IF w.stop THEN w.ret ELSE Nil]
  /\ seen' = IF fault.node = e /\ fault.site \in
                  {"walk_lstat", "walk_readdir", "entry_lstat", "entry_readdir"}
                  /\ w.visit.ret = PathError(fault.errno)
               THEN seen \cup {d} ELSE seen

\* Mutant of VisitEffect: visit waits for a free slot of limits before each go
\* statement.
VisitEffectNeedsPermit(d, e, w, last) ==
  /\ w.visit.spawn # "none" => CanAcquire
  /\ wg' = AddOnSpawn(w.visit)
  /\ tpc' = [n \in Nodes |->
               IF n = d /\ (w.stop \/ last) THEN "release"
               ELSE IF n = e /\ w.visit.spawn # "none" THEN "acquire"
               ELSE tpc[n]]
  /\ werr' = [werr EXCEPT ![d] = IF w.stop THEN w.ret ELSE Nil]
  /\ seen' = IF fault.node = e /\ fault.site \in
                  {"walk_lstat", "walk_readdir", "entry_lstat", "entry_readdir"}
                  /\ w.visit.ret = PathError(fault.errno)
               THEN seen \cup {d} ELSE seen

\* What one call of visit does to the shared state: wg.Add(1) and the go statement
\* for entry e, and, when Walk returns, walkDir's return value.
VisitEffect(d, e, w, last) ==
  /\ wg' = AddOnSpawn(w.visit)
  /\ tpc' = [n \in Nodes |->
               IF n = d /\ (w.stop \/ last) THEN "release"
               ELSE IF n = e /\ w.visit.spawn # "none" THEN "acquire"
               ELSE tpc[n]]
  /\ werr' = [werr EXCEPT ![d] = IF w.stop THEN w.ret ELSE Nil]
  /\ seen' = IF fault.node = e /\ fault.site \in
                  {"walk_lstat", "walk_readdir", "entry_lstat", "entry_readdir"}
                  /\ w.visit.ret = PathError(fault.errno)
               THEN seen \cup {d} ELSE seen

\* filepath.Walk(dir, visit) starts: the root is stat'ed, listed and visited.
WalkStart(d) ==
  /\ Alive /\ tpc[d] = "walk" /\ widx[d] = 0
  /\ VisitEffect(d, d, WalkRoot(d), Entries(d) = <<>>)
  /\ widx' = [widx EXCEPT ![d] = 1]
  /\ UNCHANGED frame4a
  /\ UNCHANGED <<content, nworkers, fault, limits, pairs, pairsClosed, hashes, final,
                 opc, cpc, aborted, panic, nsent>>

\* filepath.Walk(dir, visit) handles the next entry of dir's listing.
WalkEntry(d) ==
  /\ Alive /\ tpc[d] = "walk" /\ widx[d] \in 1..Len(Entries(d))
  /\ VisitEffect(d, Entries(d)[widx[d]], WalkOne(d, Entries(d)[widx[d]]),
                 widx[d] = Len(Entries(d)))
  /\ widx' = [widx EXCEPT ![d] = @ + 1]
  /\ UNCHANGED frame4a
  /\ UNCHANGED <<content, nworkers, fault, limits, pairs, pairsClosed, hashes, final,
                 opc, cpc, aborted, panic, nsent>>

\* Mutant of ReleasePermit: the permit is not given back.
ReleasePermitNever == limits

\* The channel limits after <-limits.
ReleasePermit == limits - 1

\* The deferred function's <-limits.
WalkRelease(d) ==
  /\ Alive /\ tpc[d] = "release" /\ d \in Dirs
  /\ limits > 0
  /\ limits' = ReleasePermit
  /\ tpc' = [tpc EXCEPT ![d] = "done"]
  /\ UNCHANGED frame4a
  /\ UNCHANGED <<content, nworkers, fault, wg, pairs, pairsClosed, hashes, final, opc,
                 cpc, widx, werr, aborted, panic, nsent, seen>>

\* Mutant of DoneEffect: wg.Done() is called a second time.
DoneEffectTwice(n) ==
  /\ wg' = wg - 2
  /\ panic' = IF wg - 2 < 0 THEN "sync: negative WaitGroup counter" ELSE panic
  /\ tpc' = [tpc EXCEPT ![n] = "end"]

\* wg.Done(): the counter goes down by one; below zero it panics.
DoneEffect(n) ==
  /\ wg' = wg - 1
  /\ panic' = IF wg - 1 < 0 THEN "sync: negative WaitGroup counter" ELSE panic
  /\ tpc' = [tpc EXCEPT ![n] = "end"]

\* The deferred function's wg.Done().  The value walkDir returns is dropped by
\* the go statement; only searchTree's direct call looks at it.
WalkDone(d) ==
  /\ Alive /\ tpc[d] = "done" /\ d \in Dirs
  /\ DoneEffect(d)
  /\ UNCHANGED frame4a
  /\ UNCHANGED <<content, nworkers, fault, limits, pairs, pairsClosed, hashes, final,
                 opc, cpc, widx, werr, aborted, nsent, seen>>

\* ------------------------------------------------------------------ process

\* Mutant of ProcAcquire: process sends the pair without calling hashFile.
ProcAcquireSkipsHash(f) ==
  /\ Alive /\ tpc[f] = "acquire" /\ f \in Files
  /\ CanAcquire
  /\ limits' = limits + 1
  /\ tpc' = [tpc EXCEPT ![f] = "send"]
  /\ UNCHANGED frame4a
  /\ UNCHANGED <<content, nworkers, fault, wg, pairs, pairsClosed, hashes, final, opc,
                 cpc, widx, werr, aborted, panic, nsent, seen>>

\* limits <- true
ProcAcquire(f) ==
  /\ Alive /\ tpc[f] = "acquire" /\ f \in Files
  /\ CanAcquire
  /\ limits' = limits + 1
  /\ tpc' = [tpc EXCEPT ![f] = "hash"]
  /\ UNCHANGED frame4a
  /\ UNCHANGED <<content, nworkers, fault, wg, pairs, pairsClosed, hashes, final, opc,
                 cpc, widx, werr, aborted, panic, nsent, seen>>

\* hashFile(path): the file is opened and read, or log.Fatal ends the process.
ProcHash(f) ==
  /\ Alive /\ tpc[f] = "hash"
  /\ aborted' = HashFatal(f)
  /\ tpc' = [tpc EXCEPT ![f] = IF HashFatal(f) THEN @ ELSE "send"]
  /\ seen' = IF fault.node = f /\ fault.site \in {"open", "read"}
               THEN seen \cup {f} ELSE seen
  /\ UNCHANGED frame4a
  /\ UNCHANGED <<content, nworkers, fault, wg, limits, pairs, pairsClosed, hashes,
                 final, opc, cpc, widx, werr, panic, nsent>>

\* pairs <- hashFile(path): blocks while the buffer is full, panics when closed.
ProcSend(f) ==
  /\ Alive /\ tpc[f] = "send"
  /\ pairsClosed \/ CanSend
  /\ IF pairsClosed
       THEN panic' = "send on closed channel" /\ UNCHANGED <<pairs, tpc, nsent>>
       ELSE /\ pairs' = Append(pairs, HashPair(f))
            /\ tpc' = [tpc EXCEPT ![f] = "release"]
            /\ nsent' = [nsent EXCEPT ![f] = @ + 1]
            /\ panic' = panic
  /\ UNCHANGED frame4a
  /\ UNCHANGED <<content, nworkers, fault, wg, limits, pairsClosed, hashes, final, opc,
                 cpc, widx, werr, aborted, seen>>

\* <-limits
ProcRelease(f) ==
  /\ Alive /\ tpc[f] = "release" /\ f \in Files
  /\ limits > 0
  /\ limits' = ReleasePermit
  /\ tpc' = [tpc EXCEPT ![f] = "done"]
  /\ UNCHANGED frame4a
  /\ UNCHANGED <<content, nworkers, fault, wg, pairs, pairsClosed, hashes, final, opc,
                 cpc, widx, werr, aborted, panic, nsent, seen>>

\* wg.Done()
ProcDone(f) ==
  /\ Alive /\ tpc[f] = "done" /\ f \in Files
  /\ DoneEffect(f)
  /\ UNCHANGED frame4a
  /\ UNCHANGED <<content, nworkers, fault, limits, pairs, pairsClosed, hashes, final,
                 opc, cpc, widx, werr, aborted, nsent, seen>>

\* ---------------------------------------------------------- specifications

Next ==
  \/ Start
  \/ CheckErr
  \/ Wait
  \/ Close
  \/ Collect
  \/ CollectEnd
  \/ Deliver
  \/ \E d \in Dirs : WalkAcquire(d)
  \/ \E d \in Dirs : WalkStart(d)
  \/ \E d \in Dirs : WalkEntry(d)
  \/ \E d \in Dirs : WalkRelease(d)
  \/ \E d \in Dirs : WalkDone(d)
  \/ \E f \in Files : ProcAcquire(f)
  \/ \E f \in Files : ProcHash(f)
  \/ \E f \in Files : ProcSend(f)
  \/ \E f \in Files : ProcRelease(f)
  \/ \E f \in Files : ProcDone(f)

Spec == Init /\ [][Next]_vars

SpecAnyRoot == InitAnyRoot /\ [][Next]_vars

\* The runs on the tree with the directory r/a/z.
InitDeep ==
  rootName = FS[Root].name /\ deep = TRUE /\ MainIdle /\ InitRun /\ TwoTreeIdle /\ Walk2Idle

DeepSpec == InitDeep /\ [][Next]_vars

\* main of walk4a is entered with or without -d.
InitMain ==
  /\ rootName = FS[Root].name /\ deep = FALSE
  /\ main4a \in {[dupFlag |-> b, pc |-> "search", out |-> <<>>] : b \in BOOLEAN}
  /\ InitRun /\ TwoTreeIdle /\ Walk2Idle

\* searchTree has returned: main prints the groups.
MainReport ==
  /\ Alive /\ opc = "done" /\ main4a.pc = "search"
  /\ \E order \in Orders(DOMAIN final) :
       main4a' = [main4a EXCEPT !.pc = "done",
                                !.out = PrintAll(order, final, main4a.dupFlag)]
  /\ UNCHANGED <<rootName, deep, env, main, sharedLimits, tree, task, walk2>>
  /\ UNCHANGED <<content, nworkers, fault, wg, limits, pairs, pairsClosed, hashes,
                 final, opc, cpc, tpc, widx, werr, aborted, panic, nsent, seen>>

NextMain == Next \/ MainReport

MainSpec == InitMain /\ [][NextMain]_vars

\* The steps of the goroutine that runs searchTree, which calls walkDir on the
\* root itself.
SearchTreeStep ==
  \/ Start \/ CheckErr \/ Wait \/ Close \/ Deliver
  \/ WalkAcquire(Root) \/ WalkStart(Root) \/ WalkEntry(Root)
  \/ WalkRelease(Root) \/ WalkDone(Root)

\* The steps of the goroutine started by go collect(pairs, result).
CollectStep == Collect \/ CollectEnd \/ Deliver

\* The steps of the goroutine started by go walkDir(d, ...).
WalkDirStep(d) ==
  WalkAcquire(d) \/ WalkStart(d) \/ WalkEntry(d) \/ WalkRelease(d) \/ WalkDone(d)

\* The steps of the goroutine started by go process(f, ...).
ProcessStep(f) ==
  ProcAcquire(f) \/ ProcHash(f) \/ ProcSend(f) \/ ProcRelease(f) \/ ProcDone(f)

\* The Go scheduler runs every goroutine that stays runnable.
Fairness ==
  /\ WF_vars(SearchTreeStep)
  /\ WF_vars(CollectStep)
  /\ \A d \in Dirs \ {Root} : WF_vars(WalkDirStep(d))
  /\ \A f \in Files : WF_vars(ProcessStep(f))

FairSpec == Init /\ [][Next]_vars /\ Fairness

\* ------------------------------------------------------------------ claims

\* The calls that hold a permit: walkDir between its limits <- true and the
\* deferred <-limits, process between its limits <- true and its <-limits.
Holders == {n \in Nodes : tpc[n] \in {"walk", "hash", "send", "release"}}

\* The calls that were started and have not yet called wg.Done().
Outstanding == {n \in Nodes : tpc[n] \notin {"none", "end"}}

\* The number of times path p occurs in the lists of index m.
RECURSIVE CountIn(_, _)
CountIn(q, p) ==
  IF q = <<>> THEN 0 ELSE (IF Head(q) = p THEN 1 ELSE 0) + CountIn(Tail(q), p)

RECURSIVE SumOver(_, _, _)
SumOver(m, keys, p) ==
  IF keys = {} THEN 0
  ELSE LET k == CHOOSE k \in keys : TRUE
       IN CountIn(m[k], p) + SumOver(m, keys \ {k}, p)

Occurrences(m, p) == SumOver(m, DOMAIN m, p)

\* C1: in every reachable state the number of permits held by walkDir and
\* process calls together is at most nworkers.
C1_PermitsWithinCapacity == Cardinality(Holders) <= nworkers

\* C1 witness: every permit is held, by a walkDir and a process call at the same
\* time, while another call waits for one.
C1_Witness ==
  /\ Cardinality(Holders) = nworkers
  /\ \E d \in Dirs : d \in Holders
  /\ \E f \in Files : f \in Holders
  /\ \E n \in Nodes : tpc[n] = "acquire"

\* C2: pairs is closed only after the counter is zero: no process call sends on
\* the closed channel, none is left that could, and every pair sent is in the
\* index searchTree returns.
C2_CloseAfterZero ==
  /\ panic # "send on closed channel"
  /\ pairsClosed => wg = 0 /\ \A f \in Files : tpc[f] \in {"none", "end"}
  /\ opc = "done" => \A f \in Files : Occurrences(final, Path(f)) = nsent[f]

\* C2 witness: searchTree has the index and two pairs were sent.
C2_Witness ==
  /\ opc = "done"
  /\ \E f1, f2 \in Files : f1 # f2 /\ nsent[f1] = 1 /\ nsent[f2] = 1

\* C3: once wg.Wait() has returned every walkDir and process call, also those
\* started by started calls, has finished; the counter is never zero while a call
\* is pending or running.
C3_WaitCoversAll ==
  /\ opc \in {"close", "recv", "done"} => Outstanding = {}
  /\ opc # "start" /\ wg = 0 => Outstanding = {}

\* C3 witness: Wait has returned after a process call started by a started
\* walkDir call has finished.
C3_Witness == opc = "close" /\ tpc["a"] = "end" /\ tpc["x"] = "end"

\* C4: the counter is never negative and equals the number of calls started
\* (the root walk included) that have not yet called Done.
C4_CounterExact ==
  /\ wg >= 0
  /\ panic # "sync: negative WaitGroup counter"
  /\ wg = Cardinality(Outstanding)

\* C4 witness: the root walk, a started walk and two started process calls are
\* all outstanding.
C4_Witness == wg = 4 /\ {"r", "a", "x", "y"} \subseteq Outstanding

RECURSIVE Ancestors(_)
\* The directories on the way from the root to n.
Ancestors(n) ==
  IF n = Root THEN {} ELSE {FS[n].parent} \cup Ancestors(FS[n].parent)

\* Directory d is matched by the IgnoreSet.
IgnoredDir(d) == Ext(Path(d)) \in ignoreDirExts \/ Path(d) \in ignoreDirs

\* f is a regular, non-empty file that the IgnoreSet matches neither by its
\* basename nor by a directory above it.
Admissible(f) ==
  /\ FS[f].kind = "file" /\ Size(f) > 0
  /\ Base(Path(f)) \notin ignoreFiles
  /\ \A d \in Ancestors(f) : ~IgnoredDir(d)

\* No system call on f, or on a directory above f, fails in this run.
Intact(f) == fault.node \notin {f} \cup Ancestors(f)

EnumSites == {"walk_lstat", "walk_readdir", "entry_lstat", "entry_readdir"}

\* C5: every regular, non-empty, non-ignored file under the root is exactly once
\* among the paths of the index searchTree returns.
C5_ExactlyOnce ==
  opc = "done" =>
    \A f \in Files : Admissible(f) /\ Intact(f) => Occurrences(final, Path(f)) = 1

\* The run has ended normally: every started call has finished, every permit is
\* back, the counter is zero, pairs is closed and searchTree has the index.
Finished ==
  /\ opc = "done" /\ cpc = "end"
  /\ \A n \in Nodes : tpc[n] \in {"none", "end"}
  /\ limits = 0 /\ wg = 0 /\ pairsClosed /\ pairs = <<>>

\* C6: under fair scheduling the run ends, for every capacity and tree of the
\* model: with no failing system call it ends normally, and otherwise it ends
\* normally or log.Fatal ends the process; no run stays blocked on limits, pairs,
\* wg or result.
C6_Terminates ==
  /\ fault = NoFault => <>Finished
  /\ <>(Finished \/ aborted)

\* C6 witness: a process call holds a permit and is blocked sending on the full
\* channel pairs.
C6_Witness ==
  \E f \in Files : tpc[f] = "send" /\ Len(pairs) = nworkers /\ limits = nworkers

\* C7: an enumeration error other than a vanished entry, met by the root walk or
\* by a started walkDir call, ends the run without an index being returned.
C7_EnumErrorFatal ==
  (seen \cap Dirs # {} /\ fault.site \in EnumSites /\ fault.errno # "ENOENT")
    => opc # "done"

\* C8: a file that vanished before hashFile opens it is skipped: log.Fatal is
\* not called.
C8_VanishedFileSkipped ==
  (fault.site = "open" /\ fault.errno = "ENOENT" /\ fault.node \in seen) => ~aborted

\* C9: a walkDir call that meets a vanished entry skips it and goes on with the
\* rest of the listing: it returns nil after the last entry and the run is not
\* aborted.
C9_VanishedEntrySkipped ==
  \A d \in Dirs :
    (d \in seen /\ fault.site \in {"entry_lstat", "entry_readdir"}
       /\ fault.errno = "ENOENT") =>
      /\ ~aborted
      /\ tpc[d] \in {"release", "done", "end"} =>
           werr[d] = Nil /\ widx[d] > Len(Entries(d))

\* The paths of index m lie in the same group exactly when their files hold the
\* same bytes.
GroupedByContent(m) ==
  \A f1, f2 \in Files : \A k1, k2 \in DOMAIN m :
    (CountIn(m[k1], Path(f1)) > 0 /\ CountIn(m[k2], Path(f2)) > 0)
      => (k1 = k2 <=> content[f1] = content[f2])

\* C10: in the index, also in the one searchTree returns, two recorded files are
\* in the same group if and only if their contents are identical.
C10_SameGroupIffSameContent ==
  /\ GroupedByContent(hashes)
  /\ opc = "done" => GroupedByContent(final)

\* C10 witness: the returned index has a group of two paths.
C10_Witness == opc = "done" /\ \E k \in DOMAIN final : Len(final[k]) = 2

\* Everything below directory d.
Below(d) == {n \in Nodes : d \in Ancestors(n)}

\* The paths in the lists of index m.
PathsIn(m) == UNION {Range(m[k]) : k \in DOMAIN m}

\* The paths of the pairs waiting in the channel pairs.
PathsQueued == {pairs[j].path : j \in 1..Len(pairs)}

\* A walkDir or process call was started for n, or a pair with n's path was sent
\* or is in an index.
Contributes(n) ==
  \/ tpc[n] # "none"
  \/ n \in Files /\ nsent[n] > 0
  \/ Path(n) \in PathsQueued \cup PathsIn(hashes) \cup PathsIn(final)

C12_OnlyNonEmptyRegular ==
  /\ \A n \in Nodes \ Dirs :
       Contributes(n) =>
         FS[n].kind = "file" /\ Size(n) > 0 /\ Base(Path(n)) \notin ignoreFiles
  /\ PathsQueued \cup PathsIn(hashes) \cup PathsIn(final) \subseteq
       {Path(f) : f \in {n \in Files : Size(n) > 0 /\ Base(Path(n)) \notin ignoreFiles}}

\* C12 witness: the run has ended on a tree with an empty file beside a
\* recorded one.
C12_Witness == opc = "done" /\ Size("x") = 0 /\ tpc["a"] = "end" /\ nsent["y"] = 1

\* The place of n in the listing of its directory.
IndexOf(n) ==
  CHOOSE j \in 1..Len(Entries(FS[n].parent)) : Entries(FS[n].parent)[j] = n

RECURSIVE Started(_)
\* A sequential reading of the walk: a call is started for n when one is started
\* for its directory, whose walk gets as far as n and starts one there.  It
\* depends on the tree and the failing system call only.
Started(n) ==
  IF n = Root THEN TRUE
  ELSE LET d == FS[n].parent
       IN /\ Started(d)
          /\ ~WalkRoot(d).stop
          /\ \A j \in 1..(IndexOf(n) - 1) : ~WalkOne(d, Entries(d)[j]).stop
          /\ WalkOne(d, n).visit.spawn # "none"

\* The files the sequential reading hashes.
Hashed == {f \in Files : Started(f)}

\* C13: the index searchTree returns is the same in every interleaving: its keys
\* and the set of paths of each key are those of the sequential reading of the
\* tree; only the order within a group varies.
C13_IndexIndependentOfInterleaving ==
  opc = "done" =>
    /\ DOMAIN final = {MD5Sum(f) : f \in Hashed}
    /\ \A k \in DOMAIN final :
         /\ Range(final[k]) = {Path(f) : f \in {n \in Hashed : MD5Sum(n) = k}}
         /\ Len(final[k]) = Cardinality(Range(final[k]))

\* C13 witness: a run ends with y before x in their common group; in other runs
\* collect receives x first.
C13_Witness ==
  opc = "done" /\ \E k \in DOMAIN final : final[k] = <<Path("y"), Path("x")>>

\* C14: no group of the index is empty, and the keys of collect's map are the
\* digests of the pairs it has received; the keys of the returned index are the
\* digests of all pairs sent.
C14_KeysIffProduced ==
  /\ \A k \in DOMAIN hashes : hashes[k] # <<>>
  /\ DOMAIN hashes =
       {MD5Sum(f) : f \in {n \in Files : nsent[n] > 0 /\ Path(n) \notin PathsQueued}}
  /\ opc = "done" =>
       /\ \A k \in DOMAIN final : final[k] # <<>>
       /\ DOMAIN final = {MD5Sum(f) : f \in {n \in Files : nsent[n] > 0}}

\* C14 witness: the returned index has two keys.
C14_Witness == opc = "done" /\ Cardinality(DOMAIN final) = 2

\* C20: collect's map changes only by an iteration of collect's range loop, no
\* step of a walkDir or process call or of searchTree changes it; searchTree's
\* copy is set only by the receive from result, after pairs is closed and
\* drained, and after that neither changes.
C20_SingleWriter ==
  [][/\ hashes' # hashes =>
          /\ cpc = "range" /\ cpc' = "range" /\ pairs # <<>>
          /\ hashes' = Insert(hashes, Head(pairs))
          /\ tpc' = tpc /\ opc' = opc /\ opc # "done"
     /\ final' # final =>
          /\ cpc = "result" /\ opc = "recv"
          /\ pairsClosed /\ pairs = <<>>
          /\ final' = hashes /\ hashes' = hashes
     /\ opc = "done" => hashes' = hashes /\ final' = final]_vars

\* C20 witness: searchTree holds the index collect built, with a path in it.
C20_Witness == opc = "done" /\ final = hashes /\ final # EmptyMap

\* ================================================== the two-tree program
\* The first program of README.md: main runs searchTree1 on dir1 (path -> hash)
\* and searchTree2 on dir2 (hash -> paths) concurrently under one shared
\* limiter, then reports the files of dir1 that are, or are not, in dir2.

\* ------------------------------------------------------------------ inputs

\* The directory arguments: two trees either way round, the same tree twice,
\* none.
ArgLists ==
  {<<TPath("a"), TPath("b")>>, <<TPath("b"), TPath("a")>>,
   <<TPath("a"), TPath("a")>>, <<>>}

\* The values of the repeated flag -i.
IgnoreChoices == {{}, {TPath("a")}, {TPath("p")}}

\* The bytes of the files: p holds content 1, r is not empty.
TContents == {c \in [TFiles -> Contents] : c["p"] = 1 /\ c["r"] # 0}

\* The runs modelled.  An input is fixed in the runs it has no part in: the
\* files when main stops for want of directories, the file of b when only a is
\* searched; -i is given only with two trees.  The run with -d and no
\* directory, which searches "." twice, is left out.
Envs ==
  {e \in [args : ArgLists, dupFlag : BOOLEAN, ignoreDirs : IgnoreChoices,
          content : TContents] :
     /\ e.args = <<>> => ~e.dupFlag /\ e.content["r"] = 1
     /\ e.args \in {<<>>, <<TPath("a"), TPath("a")>>} =>
          e.ignoreDirs = {} /\ e.content["q"] = 1}

\* ------------------------------------------------------------ pure helpers

\* filepath.Ext(p) and filepath.Base(p).
TExt(path) == TFS[NodeOf(path)].name.ext
TBase(path) == TFS[NodeOf(path)].name

\* The hashedFile hashFile returns for n.
HashedFile(n) == [hash |-> <<"md5", env.content[n]>>, path |-> TPath(n)]

\* The directory searchTree1 / searchTree2 walks, and the one it is told to skip.
Own(s) == IF s = 1 THEN main.searchDir1 ELSE main.searchDir2
Other(s) == IF s = 1 THEN main.searchDir2 ELSE main.searchDir1

\* The closure visit of walkDir(dir1, dir2, ...) on entry e, without error:
\* the call it starts after wg.Add(1).
TVisit(dir1, dir2, e) ==
  IF TFS[e].kind = "dir" /\ TPath(e) # dir1
    THEN IF TPath(e) = dir2 THEN "none"
         ELSE IF TExt(TPath(e)) \in ignoreDirExts THEN "none"
         ELSE IF TPath(e) \in env.ignoreDirs THEN "none"
         ELSE "walkDir"
  ELSE IF TFS[e].kind = "file" /\ env.content[e] > 0
    THEN IF TBase(TPath(e)) \notin ignoreFiles THEN "processFile" ELSE "none"
  ELSE "none"

\* Mutant of SharedCanAcquire: the channel limits has no bound.
SharedCanAcquireUnbounded == TRUE

\* limits <- true can proceed: the shared channel has a free slot.
SharedCanAcquire == sharedLimits < main.nworkers

\* Mutant of SameDirFatal: the two directories are not compared.
SameDirNeverFatal(dir1, dir2, dup) == FALSE

\* main stops with "same directory specified twice".
SameDirFatal(dir1, dir2, dup) == dir1 = dir2 /\ ~dup

\* collectHashes1's map after hashes[result.path] = result.hash.
Insert1(m, r) ==
  [k \in DOMAIN m \cup {r.path} |-> IF k = r.path THEN r.hash ELSE m[k]]

\* Mutant of removeWithPrefix: nothing is removed.
removeNothing(paths, path) == paths

\* strings.HasPrefix(v, path).
HasPrefix(v, path) == Len(path) <= Len(v) /\ SubSeq(v, 1, Len(path)) = path

\* removeWithPrefix(paths, path).
removeWithPrefix(paths, path) == SelectSeq(paths, LAMBDA v : ~HasPrefix(v, path))

RECURSIVE RemoveIgnored(_, _)
\* for v := range ignoreDirs { files = removeWithPrefix(files, v) }
RemoveIgnored(files, dirs) ==
  IF dirs = {} THEN files
  ELSE LET v == CHOOSE v \in dirs : TRUE
       IN RemoveIgnored(removeWithPrefix(files, v), dirs \ {v})

\* The characters of the paths in code point order.
Alphabet == <<".", "/", "a", "b", "p", "q", "r">>

RECURSIVE PathLess(_, _)
\* The order of sortfold.Strings on paths of lower-case letters without digits.
PathLess(x, y) ==
  IF x = <<>> THEN y # <<>>
  ELSE IF y = <<>> THEN FALSE
  ELSE IF Head(x) = Head(y) THEN PathLess(Tail(x), Tail(y))
  ELSE (CHOOSE j \in 1..Len(Alphabet) : Alphabet[j] = Head(x)) <
       (CHOOSE j \in 1..Len(Alphabet) : Alphabet[j] = Head(y))

RECURSIVE SortedKeys(_)
\* keys after sortfold.Strings(keys).
SortedKeys(S) ==
  IF S = {} THEN <<>>
  ELSE LET m == CHOOSE m \in S : \A o \in S \ {m} : PathLess(m, o)
       IN <<m>> \o SortedKeys(S \ {m})

\* The line of text printed before the list.
Header(dup, oneDir, useIgnore) ==
  [kind |-> "header",
   text |-> IF dup THEN (IF oneDir THEN "duplicated in" ELSE "also in") ELSE "not in",
   ignoring |-> useIgnore]

\* What one iteration of for _, file := range keys prints.
CompareFile(file, dir1Hashes, dir2Hashes, dup, dirs) ==
  LET hash == dir1Hashes[file]
      useIgnore == Cardinality(dirs) > 0
  IN IF hash \in DOMAIN dir2Hashes
       THEN IF dup
              THEN LET files == IF useIgnore THEN RemoveIgnored(dir2Hashes[hash], dirs)
                                ELSE dir2Hashes[hash]
                   IN IF useIgnore /\ Len(files) = 0 THEN <<>>
                      ELSE <<[kind |-> "dup", file |-> file, hash |-> hash,
                              files |-> files]>>
              ELSE <<>>
     ELSE IF ~dup
       THEN LET files == IF useIgnore THEN RemoveIgnored(<<>>, dirs) ELSE <<>>
            IN IF useIgnore /\ Len(files) # 0 THEN <<>>
               ELSE <<[kind |-> "missing", file |-> file, hash |-> hash,
                       files |-> <<>>]>>
     ELSE <<>>

RECURSIVE CompareAll(_, _, _, _, _)
\* The lines of the loop over the sorted keys of dir1Hashes.
CompareAll(keys, dir1Hashes, dir2Hashes, dup, dirs) ==
  IF keys = <<>> THEN <<>>
  ELSE CompareFile(Head(keys), dir1Hashes, dir2Hashes, dup, dirs) \o
       CompareAll(Tail(keys), dir1Hashes, dir2Hashes, dup, dirs)

\* Mutant of IsDupGroup: every group is printed.
IsDupGroupAny(files) == Len(files) > 0

\* if len(files) > 1: the group is printed.
IsDupGroup(files) == Len(files) > 1

RECURSIVE GroupAll(_, _)
\* The lines of for hash, files := range dir2Hashes, visiting the keys in order.
GroupAll(order, dir2Hashes) ==
  IF order = <<>> THEN <<>>
  ELSE (IF IsDupGroup(dir2Hashes[Head(order)])
          THEN <<[kind |-> "group", file |-> <<>>, hash |-> Head(order),
                  files |-> dir2Hashes[Head(order)]]>>
          ELSE <<>>) \o GroupAll(Tail(order), dir2Hashes)

\* -------------------------------------------------------------------- Init

\* The walk4a program is not run.
Walk4aIdle ==
  /\ rootName = FS[Root].name
  /\ deep = FALSE
  /\ MainIdle
  /\ content = [n \in Files |-> 1]
  /\ nworkers = 1
  /\ fault = NoFault
  /\ wg = 0 /\ limits = 0 /\ pairs = <<>> /\ pairsClosed = FALSE
  /\ hashes = EmptyMap /\ final = EmptyMap
  /\ opc = "start" /\ cpc = "range"
  /\ tpc = [n \in Nodes |-> "none"]
  /\ widx = [d \in Dirs |-> 0]
  /\ werr = [d \in Dirs |-> Nil]
  /\ aborted = FALSE /\ panic = "none"
  /\ nsent = [n \in Files |-> 0]
  /\ seen = {}
  /\ Walk2Idle

\* main is entered with one of the command lines and file contents of Envs.
InitTwoTree ==
  /\ Walk4aIdle
  /\ env \in Envs
  /\ main = MainInit
  /\ sharedLimits = 0
  /\ tree = TreeInit
  /\ task = TaskInit

\* -------------------------------------------------------------------- main

\* flag.Parse up to the checks of the directory arguments.
ParseArgs ==
  /\ main.pc = "parse"
  /\ LET n == Len(env.args)
         dir1 == IF n > 1 THEN env.args[1] ELSE <<".">>
         dir2 == IF n > 1 THEN env.args[2] ELSE IF n > 0 THEN env.args[1] ELSE <<".">>
     IN IF n = 0 /\ ~env.dupFlag
          THEN main' = [main EXCEPT !.pc = "fatal"]
          ELSE main' = [main EXCEPT
                          !.searchDir1 = dir1, !.searchDir2 = dir2,
                          !.useOneDir = (dir1 = dir2 /\ env.dupFlag),
                          !.pc = IF SameDirFatal(dir1, dir2, env.dupFlag)
                                   THEN "fatal" ELSE "make"]
  /\ UNCHANGED <<env, sharedLimits, tree, task>>
  /\ UNCHANGED frame2

\* limits := make(chan bool, nworkers) and the two go statements.
StartSearches ==
  /\ main.pc = "make"
  /\ main' = [main EXCEPT !.nworkers = 4 * GOMAXPROCS, !.pc = "recv1"]
  /\ tree' = [s \in 1..2 |-> [tree[s] EXCEPT !.spc = "start"]]
  /\ UNCHANGED <<env, sharedLimits, task>>
  /\ UNCHANGED frame2

\* dir1Hashes := <-result1, then dir2Hashes := <-result2.
Receive(s) ==
  /\ main.pc = (IF s = 1 THEN "recv1" ELSE "recv2")
  /\ tree[s].spc = "send"
  /\ main' = IF s = 1
               THEN [main EXCEPT !.dir1Hashes = tree[1].hashes, !.pc = "recv2"]
               ELSE [main EXCEPT !.dir2Hashes = tree[2].hashes, !.pc = "report"]
  /\ tree' = [tree EXCEPT ![s].spc = "end"]
  /\ UNCHANGED <<env, sharedLimits, task>>
  /\ UNCHANGED frame2

\* The rest of main: the header and the list.
Report ==
  /\ main.pc = "report"
  /\ \E order \in (IF main.useOneDir THEN Orders(DOMAIN main.dir2Hashes) ELSE {<<>>}) :
       main' = [main EXCEPT
         !.pc = "done",
         !.out = <<Header(env.dupFlag, main.useOneDir, Cardinality(env.ignoreDirs) > 0)>> \o
                 (IF main.useOneDir
                    THEN GroupAll(order, main.dir2Hashes)
                    ELSE CompareAll(SortedKeys(DOMAIN main.dir1Hashes), main.dir1Hashes,
                                    main.dir2Hashes, env.dupFlag, env.ignoreDirs))]
  /\ UNCHANGED <<env, sharedLimits, tree, task>>
  /\ UNCHANGED frame2

\* ------------------------------------------------ searchTree1, searchTree2

\* go collectHashes(files, result); wg.Add(1); the call of walkDir.
SearchStart(s) ==
  /\ tree[s].spc = "start"
  /\ tree' = [tree EXCEPT ![s].spc = "walk", ![s].cpc = "range", ![s].wg = 1]
  /\ task' = [task EXCEPT ![s][NodeOf(Own(s))].pc = "acquire"]
  /\ UNCHANGED <<env, main, sharedLimits>>
  /\ UNCHANGED frame2

\* walkDir has returned and wg.Wait() returns.
SearchWait(s) ==
  /\ tree[s].spc = "walk"
  /\ task[s][NodeOf(Own(s))].pc = "end"
  /\ tree[s].wg = 0
  /\ tree' = [tree EXCEPT ![s].spc = "close"]
  /\ UNCHANGED <<env, main, sharedLimits, task>>
  /\ UNCHANGED frame2

\* close(files)
SearchClose(s) ==
  /\ tree[s].spc = "close"
  /\ tree' = [tree EXCEPT ![s].closed = TRUE, ![s].spc = "recv"]
  /\ UNCHANGED <<env, main, sharedLimits, task>>
  /\ UNCHANGED frame2

\* Mutant of SearchDeliver: searchTree returns the map without the receive from
\* result, while the collector may still be in its loop.
SearchDeliverEarly(s) ==
  /\ tree[s].spc = "recv"
  /\ tree' = [tree EXCEPT ![s].spc = "send", ![s].cpc = "end"]
  /\ UNCHANGED <<env, main, sharedLimits, task>>
  /\ UNCHANGED frame2

\* return <-result, meeting the collector's out <- hashes; then the goroutine
\* of main offers the map on result1 / result2.
SearchDeliver(s) ==
  /\ tree[s].spc = "recv"
  /\ tree[s].cpc = "result"
  /\ tree' = [tree EXCEPT ![s].spc = "send", ![s].cpc = "end"]
  /\ UNCHANGED <<env, main, sharedLimits, task>>
  /\ UNCHANGED frame2

\* ---------------------------------------- collectHashes1, collectHashes2

\* One iteration of for result := range in.
CollectHashes(s) ==
  /\ tree[s].cpc = "range"
  /\ tree[s].files # <<>>
  /\ tree' = [tree EXCEPT
                ![s].files = Tail(@),
                ![s].hashes = IF s = 1 THEN Insert1(@, Head(tree[s].files))
                              ELSE Insert(@, Head(tree[s].files))]
  /\ UNCHANGED <<env, main, sharedLimits, task>>
  /\ UNCHANGED frame2

\* The range loop ends: files is closed and drained.
CollectHashesEnd(s) ==
  /\ tree[s].cpc = "range"
  /\ tree[s].files = <<>> /\ tree[s].closed
  /\ tree' = [tree EXCEPT ![s].cpc = "result"]
  /\ UNCHANGED <<env, main, sharedLimits, task>>
  /\ UNCHANGED frame2

\* ------------------------------------------------------------------ walkDir

\* limits <- true; filepath.Walk stats and lists the directory and calls visit
\* on the directory itself, which does nothing.
TWalkAcquire(s, d) ==
  /\ d \in TDirs
  /\ task[s][d].pc = "acquire"
  /\ SharedCanAcquire
  /\ sharedLimits' = sharedLimits + 1
  /\ task' = [task EXCEPT ![s][d] = [pc |-> "walk", idx |-> 1]]
  /\ UNCHANGED <<env, main, tree>>
  /\ UNCHANGED frame2

\* filepath.Walk calls visit on the next entry of d.
TWalkEntry(s, d) ==
  /\ d \in TDirs
  /\ task[s][d].pc = "walk"
  /\ task[s][d].idx <= Len(TFS[d].entries)
  /\ LET e == TFS[d].entries[task[s][d].idx]
         v == TVisit(TPath(d), Other(s), e)
     IN /\ task' = [task EXCEPT ![s][d].idx = @ + 1,
                                ![s][e].pc = IF v = "none" THEN @ ELSE "acquire"]
        /\ tree' = [tree EXCEPT ![s].wg = IF v = "none" THEN @ ELSE @ + 1]
  /\ UNCHANGED <<env, main, sharedLimits>>
  /\ UNCHANGED frame2

\* filepath.Walk returns nil; the deferred <-limits.
TWalkRelease(s, d) ==
  /\ d \in TDirs
  /\ task[s][d].pc = "walk"
  /\ task[s][d].idx > Len(TFS[d].entries)
  /\ sharedLimits' = sharedLimits - 1
  /\ task' = [task EXCEPT ![s][d].pc = "done"]
  /\ UNCHANGED <<env, main, tree>>
  /\ UNCHANGED frame2

\* The deferred wg.Done().
TWalkDone(s, d) ==
  /\ d \in TDirs
  /\ task[s][d].pc = "done"
  /\ tree' = [tree EXCEPT ![s].wg = @ - 1]
  /\ task' = [task EXCEPT ![s][d].pc = "end"]
  /\ UNCHANGED <<env, main, sharedLimits>>
  /\ UNCHANGED frame2

\* -------------------------------------------------------------- processFile

\* limits <- true
TProcAcquire(s, f) ==
  /\ f \in TFiles
  /\ task[s][f].pc = "acquire"
  /\ SharedCanAcquire
  /\ sharedLimits' = sharedLimits + 1
  /\ task' = [task EXCEPT ![s][f].pc = "send"]
  /\ UNCHANGED <<env, main, tree>>
  /\ UNCHANGED frame2

\* results <- hashFile(path): files has cap(limits) slots.  A send on the closed
\* channel panics.
TProcSend(s, f) ==
  /\ f \in TFiles
  /\ task[s][f].pc = "send"
  /\ IF tree[s].closed
       THEN /\ main' = [main EXCEPT !.pc = "panic"]
            /\ UNCHANGED <<tree, task>>
       ELSE /\ Len(tree[s].files) < main.nworkers
            /\ tree' = [tree EXCEPT ![s].files = Append(@, HashedFile(f))]
            /\ task' = [task EXCEPT ![s][f].pc = "release"]
            /\ UNCHANGED main
  /\ UNCHANGED <<env, sharedLimits>>
  /\ UNCHANGED frame2

\* <-limits
TProcRelease(s, f) ==
  /\ f \in TFiles
  /\ task[s][f].pc = "release"
  /\ sharedLimits' = sharedLimits - 1
  /\ task' = [task EXCEPT ![s][f].pc = "done"]
  /\ UNCHANGED <<env, main, tree>>
  /\ UNCHANGED frame2

\* wg.Done()
TProcDone(s, f) ==
  /\ f \in TFiles
  /\ task[s][f].pc = "done"
  /\ tree' = [tree EXCEPT ![s].wg = @ - 1]
  /\ task' = [task EXCEPT ![s][f].pc = "end"]
  /\ UNCHANGED <<env, main, sharedLimits>>
  /\ UNCHANGED frame2

\* ----------------------------------------------------------- specification

\* The process runs until main returns, log.Fatal exits or a panic ends it.
NextTwoTree ==
  /\ main.pc \notin {"done", "fatal", "panic"}
  /\ \/ ParseArgs
     \/ StartSearches
     \/ Report
     \/ \E s \in 1..2 :
          \/ Receive(s)
          \/ SearchStart(s)
          \/ SearchWait(s)
          \/ SearchClose(s)
          \/ SearchDeliver(s)
          \/ CollectHashes(s)
          \/ CollectHashesEnd(s)
          \/ \E n \in TNodes :
               \/ TWalkAcquire(s, n)
               \/ TWalkEntry(s, n)
               \/ TWalkRelease(s, n)
               \/ TWalkDone(s, n)
               \/ TProcAcquire(s, n)
               \/ TProcSend(s, n)
               \/ TProcRelease(s, n)
               \/ TProcDone(s, n)

TwoTreeSpec == InitTwoTree /\ [][NextTwoTree]_vars

\* main is entered with two distinct trees, either way round, without -i.
InitTwoDirs ==
  /\ Walk4aIdle
  /\ env \in {e \in Envs : /\ Len(e.args) = 2 /\ e.args[1] # e.args[2]
                           /\ e.ignoreDirs = {} /\ ~e.dupFlag
                           /\ e.content["r"] = 1}
  /\ main = MainInit
  /\ sharedLimits = 0
  /\ tree = TreeInit
  /\ task = TaskInit

\* The command lines with one tree inside the other: the working directory and
\* its subdirectory a, which the user names a or, as the shell completes it, a/.
NestedArgLists ==
  {<<<<".">>, TPath("a")>>, <<TPath("a"), <<".">>>>,
   <<<<".">>, TPath("a") \o <<"/">>>>, <<TPath("a") \o <<"/">>, <<".">>>>}

\* main is entered with one tree nested in the other, without -i; a/r is
\* empty, a/p is not.
InitNested ==
  /\ Walk4aIdle
  /\ env \in [args : NestedArgLists, dupFlag : BOOLEAN, ignoreDirs : {{}},
              content : {c \in [TFiles -> Contents] :
                           c["p"] = 1 /\ c["r"] = 0 /\ c["q"] = 1}]
  /\ main = MainInit
  /\ sharedLimits = 0
  /\ tree = TreeInit
  /\ task = TaskInit

NestedSpec == InitNested /\ [][NextTwoTree]_vars

\* The steps of the goroutine of main.
MainStep == ParseArgs \/ StartSearches \/ Receive(1) \/ Receive(2) \/ Report

\* The steps of the goroutine go func() { result <- searchTree(...) }().
SearchStep(s) ==
  SearchStart(s) \/ SearchWait(s) \/ SearchClose(s) \/ SearchDeliver(s) \/ Receive(s)

\* The steps of the goroutine started by go collectHashes(files, result).
CollectHashesStep(s) == CollectHashes(s) \/ CollectHashesEnd(s) \/ SearchDeliver(s)

\* The steps of a call of walkDir or processFile on node n of tree s.
TaskStep(s, n) ==
  \/ TWalkAcquire(s, n) \/ TWalkEntry(s, n) \/ TWalkRelease(s, n) \/ TWalkDone(s, n)
  \/ TProcAcquire(s, n) \/ TProcSend(s, n) \/ TProcRelease(s, n) \/ TProcDone(s, n)

\* The Go scheduler runs every goroutine that stays runnable.
TwoTreeFairness ==
  /\ WF_vars(MainStep)
  /\ \A s \in 1..2 :
       /\ WF_vars(SearchStep(s))
       /\ WF_vars(CollectHashesStep(s))
       /\ \A n \in TNodes : WF_vars(TaskStep(s, n))

TwoTreeFairSpec == InitTwoDirs /\ [][NextTwoTree]_vars /\ TwoTreeFairness

\* ------------------------------------------------- claims, two-tree program

\* main has printed the report of a run on two distinct trees.
TwoTreeDone == main.pc = "done" /\ ~main.useOneDir

\* The lines of the list, without the header.
Listed(out) == {out[j] : j \in 2..Len(out)}

\* The files of dir1 that lines of the given kind report.
ReportedAs(kind) == {l.file : l \in {m \in Listed(main.out) : m.kind = kind}}

\* The files of dir1 whose digest is a key of dir2Hashes, and the others.
Matches == {f \in DOMAIN main.dir1Hashes : main.dir1Hashes[f] \in DOMAIN main.dir2Hashes}
AOnly == DOMAIN main.dir1Hashes \ Matches

\* The paths of dir2 under digest h that have none of the -i values as prefix.
Kept(h) ==
  SelectSeq(main.dir2Hashes[h], LAMBDA x : \A v \in env.ignoreDirs : ~HasPrefix(x, v))

\* C15 as stated: on two trees, -d reports exactly the files of dir1 whose
\* digest is a key of dir2Hashes, and the default mode exactly the others.
C15_ClassifiedByDigest ==
  TwoTreeDone =>
    /\ env.dupFlag => ReportedAs("dup") = Matches /\ ReportedAs("missing") = {}
    /\ ~env.dupFlag => ReportedAs("missing") = AOnly /\ ReportedAs("dup") = {}

\* C15 amended: on two trees, -d reports exactly the files of dir1 whose
\* digest is a key of dir2Hashes with a path left after the paths under the -i
\* values are removed, each once and with the paths left; the default mode
\* reports exactly the files whose digest is not a key, each once.
C15_ClassifiedByDigestAfterFilter ==
  TwoTreeDone =>
    /\ Len(main.out) = 1 + Cardinality(Listed(main.out))
    /\ env.dupFlag =>
         /\ ReportedAs("dup") = {f \in Matches : Kept(main.dir1Hashes[f]) # <<>>}
         /\ ReportedAs("missing") = {}
         /\ \A l \in Listed(main.out) :
              l.hash = main.dir1Hashes[l.file] /\ l.files = Kept(l.hash)
    /\ ~env.dupFlag => ReportedAs("missing") = AOnly /\ ReportedAs("dup") = {}

\* C15 witness: -d with -i has reported a match with some but not all of the
\* paths the digest has in dir2Hashes.
C15_Witness ==
  /\ TwoTreeDone /\ env.dupFlag
  /\ \E l \in Listed(main.out) :
       l.kind = "dup" /\ 0 < Len(l.files) /\ Len(l.files) < Len(main.dir2Hashes[l.hash])

\* The files of dir1 the list would name for the indices of this run in the
\* given mode.
WouldReport(dup) ==
  LET lines == CompareAll(SortedKeys(DOMAIN main.dir1Hashes), main.dir1Hashes,
                          main.dir2Hashes, dup, env.ignoreDirs)
  IN [files |-> {lines[j].file : j \in 1..Len(lines)}, count |-> Len(lines)]

\* C16: for the indices of a run on two trees and its -i values, the files
\* reported with -d and the files reported without are disjoint and together
\* are the files of dir1Hashes, each reported once.
C16_ComplementConsistent ==
  TwoTreeDone =>
    /\ WouldReport(TRUE).files \cap WouldReport(FALSE).files = {}
    /\ WouldReport(TRUE).files \cup WouldReport(FALSE).files = DOMAIN main.dir1Hashes
    /\ WouldReport(TRUE).count + WouldReport(FALSE).count =
         Cardinality(DOMAIN main.dir1Hashes)
    /\ ReportedAs("dup") \cup ReportedAs("missing") = WouldReport(env.dupFlag).files

\* C17: with -i on two trees, a file of dir1 whose digest is a key of dir2Hashes
\* but has no path left after the paths under the -i values are removed is not
\* reported by -d and is reported as missing by the default mode.
C17_EmptiedMatchIsNoMatch ==
  TwoTreeDone /\ env.ignoreDirs # {} =>
    \A f \in Matches :
      Kept(main.dir1Hashes[f]) = <<>> =>
        /\ env.dupFlag => f \notin ReportedAs("dup")
        /\ ~env.dupFlag => f \in ReportedAs("missing")

\* The walkDir and processFile calls of both searches that hold a token of limits.
THolders ==
  {c \in (1..2) \X TNodes :
     task[c[1]][c[2]].pc \in (IF c[2] \in TDirs THEN {"walk"} ELSE {"send", "release"})}

\* C18: when both directories are the same path, main without -d stops with
\* log.Fatal before limits is made and before any search, walk, hash or
\* collector starts; with -d it goes on in one-directory mode and lists groups.
C18_SameDirRejectedBeforeStart ==
  /\ main.pc = "fatal" =>
       /\ main.nworkers = 0 /\ sharedLimits = 0
       /\ tree = TreeInit /\ task = TaskInit
       /\ main.out = <<>>
  /\ main.pc # "parse" /\ Len(env.args) = 2 /\ env.args[1] = env.args[2] =>
       /\ ~env.dupFlag => main.pc = "fatal"
       /\ env.dupFlag => main.pc # "fatal" /\ main.useOneDir
  /\ main.pc = "done" /\ main.useOneDir =>
       \A l \in Listed(main.out) : l.kind = "group"

\* C18 witness: main has stopped on the same directory given twice.
C18_Witness ==
  main.pc = "fatal" /\ Len(env.args) = 2 /\ main.searchDir1 = main.searchDir2

\* C19: the tokens in the one channel limits are those held by the walkDir and
\* processFile calls of both searches together and never exceed its capacity;
\* a search closes its channel files only when its own WaitGroup is zero and
\* all its own calls have ended, whatever the other search's counter.
C19_SharedLimiter ==
  /\ sharedLimits = Cardinality(THolders)
  /\ main.pc \notin {"parse", "make", "fatal"} =>
       main.nworkers = 4 * GOMAXPROCS /\ sharedLimits <= 4 * GOMAXPROCS
  /\ \A s \in 1..2 :
       tree[s].spc = "close" \/ tree[s].closed =>
         /\ tree[s].wg = 0
         /\ \A n \in TNodes : task[s][n].pc \in {"none", "end"}

\* C19 witness: calls of both searches together hold all the tokens and another
\* call waits for one.
C19_Witness ==
  /\ sharedLimits = main.nworkers /\ main.nworkers > 0
  /\ \A s \in 1..2 : \E c \in THolders : c[1] = s
  /\ \E s \in 1..2 : \E n \in TNodes : task[s][n].pc = "acquire"

\* C21: in one-directory mode the list has a group line for a digest exactly
\* when the digest has more than one path in dir2Hashes, one line per such
\* digest, and the line lists all the paths of the digest.
C21_OneDirReportsDuplicateGroups ==
  main.pc = "done" /\ main.useOneDir =>
    /\ {l.hash : l \in Listed(main.out)} =
         {h \in DOMAIN main.dir2Hashes : Len(main.dir2Hashes[h]) > 1}
    /\ Len(main.out) = 1 + Cardinality({l.hash : l \in Listed(main.out)})
    /\ \A l \in Listed(main.out) :
         l.kind = "group" /\ l.files = main.dir2Hashes[l.hash]

\* C21 witness: a run on one directory has listed a group of two paths.
C21_Witness ==
  /\ main.pc = "done" /\ main.useOneDir
  /\ \E l \in Listed(main.out) : Len(l.files) = 2

\* ------------------------------------------------------ claims, walk4a main

\* The lines main of walk4a printed.
Printed == {main4a.out[j] : j \in 1..Len(main4a.out)}

\* C22: with -d main of walk4a prints a group exactly when it has more than
\* one path, without -d it prints every group of the index; each group is printed
\* once, with its number of paths and all its paths; files with the same bytes
\* in different directories are in one group, and no empty file and no file
\* under an ignored directory is printed.
C22_ReportsDuplicateGroups ==
  main4a.pc = "done" =>
    /\ {l.hash : l \in Printed} =
         IF main4a.dupFlag THEN {h \in DOMAIN final : Len(final[h]) > 1}
         ELSE DOMAIN final
    /\ Len(main4a.out) = Cardinality({l.hash : l \in Printed})
    /\ \A l \in Printed :
         /\ l.files = final[l.hash]
         /\ l.count = Cardinality(Range(l.files))
         /\ \A f \in Files :
              Path(f) \in Range(l.files) =>
                Size(f) > 0 /\ \A d \in Ancestors(f) \ {Root} : ~IgnoredDir(d)
    /\ \A f, g \in Files :
         nsent[f] > 0 /\ nsent[g] > 0 /\ content[f] = content[g] =>
           \A l \in Printed : Path(f) \in Range(l.files) <=> Path(g) \in Range(l.files)

\* C22 witness: with -d main has printed one group, of the two files r/a/x and
\* r/y, and nothing of r/a/g.git/i, which has the same bytes.
C22_Witness ==
  /\ main4a.pc = "done" /\ main4a.dupFlag
  /\ Len(main4a.out) = 1
  /\ main4a.out[1].count = 2
  /\ Range(main4a.out[1].files) = {Path("x"), Path("y")}
  /\ content["i"] = content["x"]

\* ------------------------------------------------- claims, walk4a (later)

\* A change of the position of the call for n is the next one of: started,
\* limits <- true, its work, <-limits, wg.Done(); the permit is taken and given
\* back and the counter decremented in those steps only, by one.
InOrder(n) ==
  \/ tpc[n] = "none" /\ tpc'[n] = "acquire" /\ limits' = limits
  \/ /\ tpc[n] = "acquire" /\ tpc'[n] = (IF n \in Dirs THEN "walk" ELSE "hash")
     /\ limits' = limits + 1 /\ wg' = wg
  \/ /\ <<tpc[n], tpc'[n]>> \in {<<"walk", "release">>, <<"hash", "send">>,
                                 <<"send", "release">>}
     /\ limits' = limits /\ wg' >= wg
  \/ tpc[n] = "release" /\ tpc'[n] = "done" /\ limits' = limits - 1 /\ wg' = wg
  \/ tpc[n] = "done" /\ tpc'[n] = "end" /\ limits' = limits /\ wg' = wg - 1

\* C23: every walkDir and process call goes, in this order and once each,
\* through limits <- true, its work, <-limits and wg.Done(), also when its walk
\* ends with an error; and once wg.Wait() has returned no permit is held.
C23_AcquireWorkReleaseDone ==
  /\ [](opc \in {"close", "recv", "done"} => limits = 0 /\ Holders = {})
  /\ [][\A n \in Nodes : tpc'[n] # tpc[n] => InOrder(n)]_vars

\* C23 witness: wg.Wait() has returned after a process call and a walkDir call
\* whose walk failed have both ended.
C23_Witness ==
  opc = "close" /\ tpc["y"] = "end" /\ tpc["a"] = "end" /\ werr["a"] # Nil

\* C24: a call that holds a permit never waits for a permit: a walkDir call that
\* holds one can always take its next step, a process call that holds one can
\* too unless it waits to send on a full pairs, which collect can then receive
\* from; and a token is put into limits only by a call that holds none, for itself.
C24_HolderNeverWaitsForPermit ==
  /\ [](Alive =>
          \A n \in Holders :
            /\ n \in Dirs => ENABLED WalkDirStep(n)
            /\ n \in Files =>
                 \/ ENABLED ProcessStep(n)
                 \/ tpc[n] = "send" /\ ~CanSend /\ ENABLED Collect)
  /\ [][limits' > limits =>
          \E n \in Nodes \ Holders :
            tpc[n] = "acquire" /\ tpc'[n] # "acquire" /\ Holders' = Holders \cup {n}]_vars

\* C24 witness: all permits are held, a walkDir call that holds one has just
\* started a call that now waits for a permit, and goes on.
C24_Witness ==
  /\ limits = nworkers
  /\ tpc[Root] = "walk" /\ widx[Root] = 3 /\ tpc["a"] = "acquire"
  /\ ENABLED WalkDirStep(Root)

\* C25: when os.Open or io.Copy fails in hashFile the process has exited in that
\* very step, whatever the counter and the other calls; from then on no pair is
\* collected, no call moves, searchTree returns nothing and main prints nothing.
C25_HashErrorEndsRun ==
  /\ [](seen \cap Files # {} => aborted)
  /\ [](aborted => final = EmptyMap /\ opc # "done" /\ main4a.pc # "done"
                   /\ main4a.out = <<>>)
  /\ [][aborted => hashes' = hashes /\ pairs' = pairs /\ tpc' = tpc
                   /\ main4a' = main4a]_vars

\* C25 witness: hashFile has failed and ended the process while the counter is
\* above one, another call has not ended and a pair waits uncollected in pairs.
C25_Witness ==
  /\ aborted /\ fault.site \in {"open", "read"} /\ fault.node \in seen
  /\ wg > 1 /\ pairs # <<>>
  /\ \E n \in Nodes \ {fault.node} : tpc[n] \notin {"none", "end"}

\* Directory d is the root or has no directory matched by the IgnoreSet on its
\* path below the root.
AdmissibleDir(d) ==
  d = Root \/ \A a \in (Ancestors(d) \cup {d}) \ {Root} : ~IgnoredDir(a)

\* C26: when searchTree returns after a run in which no system call on a
\* directory failed, a walkDir call was made, and has ended, for exactly the
\* admissible directories of the tree.
C26_OneWalkPerAdmissibleDir ==
  opc = "done" /\ fault.node \notin Dirs =>
    \A d \in Dirs \cap Present : AdmissibleDir(d) <=> tpc[d] = "end"

\* C27: a walkDir call that has begun its walk can take its next step, up to and
\* including its <-limits and wg.Done(), in every state, whatever the calls it
\* started are doing.
C27_WalkNeverWaitsForChildren ==
  Alive =>
    \A d \in Dirs : tpc[d] \in {"walk", "release", "done"} => ENABLED WalkDirStep(d)

\* C27 witness: the walkDir call for r/a has given back its permit and
\* decremented the counter while the process call it started for r/a/x still
\* waits for a permit.
C27_Witness == tpc["a"] = "end" /\ tpc["x"] = "acquire" /\ werr["a"] = Nil

\* C28: every file whose path is in pairs, in collect's map or in the returned
\* index has been opened and read to the end without error by its process call,
\* which is past its send, and the digest recorded with the path is that of all
\* its bytes.
C28_RecordOnlyAfterRead ==
  \A f \in Files :
    Path(f) \in PathsQueued \cup PathsIn(hashes) \cup PathsIn(final) =>
      /\ tpc[f] \in {"release", "done", "end"}
      /\ ~Fails(f, "open") /\ ~Fails(f, "read")
      /\ \A j \in 1..Len(pairs) : pairs[j].path = Path(f) => pairs[j].hash = MD5Sum(f)
      /\ \A k \in DOMAIN hashes : Path(f) \in Range(hashes[k]) => k = MD5Sum(f)
      /\ \A k \in DOMAIN final : Path(f) \in Range(final[k]) => k = MD5Sum(f)

\* C28 witness: the pair of r/a/x is in pairs while the process call for r/y is
\* still reading.
C28_Witness ==
  /\ Path("x") \in PathsQueued /\ tpc["x"] = "release"
  /\ tpc["y"] = "hash" /\ Path("y") \notin PathsQueued \cup PathsIn(hashes)

\* Pipeline s has closed its stream, its collector has drained it and ended,
\* and main holds the map the collector built.
Delivered(s) ==
  /\ tree[s].closed /\ tree[s].files = <<>>
  /\ tree[s].cpc = "end" /\ tree[s].spc = "end"
  /\ \A n \in TNodes : task[s][n].pc \in {"none", "end"}
  /\ (IF s = 1 THEN main.dir1Hashes ELSE main.dir2Hashes) = tree[s].hashes

\* C29: main reaches the report only after both pipelines have closed their
\* streams and delivered the maps their collectors finished; while main waits
\* in either receive some step can be taken, and once the searches are started
\* main eventually holds both maps, whichever pipeline finishes first.
C29_ReportAfterBothDelivered ==
  /\ [](main.pc \in {"report", "done"} => Delivered(1) /\ Delivered(2))
  /\ [](main.pc = "recv2" => Delivered(1))
  /\ [](main.pc \in {"recv1", "recv2"} => ENABLED NextTwoTree)
  /\ (main.pc = "recv1" ~> main.pc = "report")

\* C29 witness: the pipeline of dir2 offers its map while main still waits for
\* that of dir1, whose walk is not over.
C29_Witness ==
  /\ main.pc = "recv1" /\ tree[2].spc = "send" /\ tree[1].spc = "walk"
  /\ ~ENABLED MainStep

\* ================================================ the worker-pool program
\* walk2.go: searchTree starts a pool of workers that hash the paths the
\* directory walkers feed them through the channel in.

\* ------------------------------------------------------------------ inputs

\* The capacity of in: make(chan string, 1024).
InCap == 1024

\* The one system call that fails in a run of walk2, or none: the listing of
\* r/a, the lstat of r/a/x, the open of r/a/x or the read of r/y.
W2Faults ==
  {NoFault,
   [node |-> "a", site |-> "entry_readdir", errno |-> "EACCES"],
   [node |-> "a", site |-> "walk_readdir", errno |-> "EACCES"],
   [node |-> "x", site |-> "entry_lstat", errno |-> "ENOENT"],
   [node |-> "x", site |-> "open", errno |-> "ENOENT"],
   [node |-> "y", site |-> "read", errno |-> "EACCES"]}

\* searchTree of walk2 is called on r; the other programs are not run.
InitWalk2 ==
  /\ rootName = FS[Root].name /\ deep = FALSE /\ MainIdle
  /\ content \in {c \in [Files -> Contents] :
                    /\ \A n \in Files \ FreeFiles : c[n] = 1
                    /\ c["y"] # 0}
  /\ fault \in W2Faults
  /\ nworkers = 1
  /\ wg = 0 /\ limits = 0 /\ pairs = <<>> /\ pairsClosed = FALSE
  /\ hashes = EmptyMap /\ final = EmptyMap
  /\ opc = "start" /\ cpc = "range"
  /\ tpc = [n \in Nodes |-> "none"]
  /\ widx = [d \in Dirs |-> 0]
  /\ werr = [d \in Dirs |-> Nil]
  /\ aborted = FALSE /\ panic = "none"
  /\ nsent = [n \in Files |-> 0]
  /\ seen = {}
  /\ TwoTreeIdle
  /\ walk2 = [Walk2None EXCEPT !.pc = "start"]

\* ------------------------------------------------------------ pure helpers

\* The process is still running.
W2Alive == ~walk2.aborted /\ walk2.panic = "none"

\* The file or directory with path p.
W2Node(p) == CHOOSE n \in Present : Path(n) = p

\* Mutant of W2Visit: the test fi.Size() > 0 is missing.
W2VisitNoSizeCheck(dir, e, err) ==
  IF err # Nil
    THEN [ret |-> IF err = ErrNotExist THEN Nil ELSE err, act |-> "none"]
  ELSE IF FS[e].kind = "dir" /\ Path(e) # Path(dir)
    THEN IF Ext(Path(e)) \in ignoreDirExts THEN [ret |-> SkipDir, act |-> "none"]
         ELSE IF Path(e) \in ignoreDirs THEN [ret |-> SkipDir, act |-> "none"]
         ELSE [ret |-> SkipDir, act |-> "walkDir"]
  ELSE IF FS[e].kind = "file"
    THEN IF Base(Path(e)) \notin ignoreFiles
           THEN [ret |-> Nil, act |-> "send"]
           ELSE [ret |-> Nil, act |-> "none"]
  ELSE [ret |-> Nil, act |-> "none"]

\* The closure visit of walk2's walkDir(dir, in), called on entry e with error
\* err.  ret is its return value; act says whether it started a walkDir
\* goroutine or sent the path on in.
W2Visit(dir, e, err) ==
  IF err # Nil
    THEN [ret |-> IF err = ErrNotExist THEN Nil ELSE err, act |-> "none"]
  ELSE IF FS[e].kind = "dir" /\ Path(e) # Path(dir)
    THEN IF Ext(Path(e)) \in ignoreDirExts THEN [ret |-> SkipDir, act |-> "none"]
         ELSE IF Path(e) \in ignoreDirs THEN [ret |-> SkipDir, act |-> "none"]
         ELSE [ret |-> SkipDir, act |-> "walkDir"]
  ELSE IF FS[e].kind = "file" /\ Size(e) > 0
    THEN IF Base(Path(e)) \notin ignoreFiles
           THEN [ret |-> Nil, act |-> "send"]
           ELSE [ret |-> Nil, act |-> "none"]
  ELSE [ret |-> Nil, act |-> "none"]

\* The start of filepath.Walk(d, visit), as WalkRoot, with walk2's visit.
W2WalkRoot(d) ==
  LET err == IF Fails(d, "walk_lstat") THEN SysErr(d, "walk_lstat")
             ELSE SysErr(d, "walk_readdir")
      v == W2Visit(d, d, err)
  IN [visit |-> v,
      stop |-> err # Nil \/ v.ret # Nil,
      ret |-> IF v.ret = SkipDir THEN Nil ELSE v.ret]

\* One iteration of walk's loop over the listing of d, as WalkOne, with walk2's
\* visit.
W2WalkOne(d, e) ==
  LET lerr == SysErr(e, "entry_lstat")
      rerr == IF lerr = Nil /\ FS[e].kind = "dir" THEN SysErr(e, "entry_readdir") ELSE Nil
      err == IF lerr # Nil THEN lerr ELSE rerr
      v == W2Visit(d, e, err)
      isDir == lerr = Nil /\ FS[e].kind = "dir"
  IN [visit |-> v,
      stop |-> IF lerr # Nil THEN v.ret # Nil /\ v.ret # SkipDir
               ELSE v.ret # Nil /\ (~isDir \/ v.ret # SkipDir),
      ret |-> v.ret]

\* Mutant of W2WaitReturns: wg.Wait() is missing.
W2WaitReturnsAtOnce == TRUE

\* wg.Wait() returns when the counter is zero.
W2WaitReturns == walk2.wg = 0

\* ------------------------------------------------------------- searchTree

\* The channels are made, the workers and the collector started; wg.Add(1) and
\* the call of walkDir(dir, in) begins.
W2Start ==
  /\ W2Alive /\ walk2.pc = "start"
  /\ walk2' = [walk2 EXCEPT
                 !.pc = "walk", !.wg = @ + 1, !.cpc = "range",
                 !.ppc = [k \in 1..workers |-> "range"],
                 !.dpc[Root] = "walk"]
  /\ UNCHANGED frameW2

\* walkDir(dir, in) has returned: if err != nil { log.Fatal(err) }.
W2CheckErr ==
  /\ W2Alive /\ walk2.pc = "walk" /\ walk2.dpc[Root] = "end"
  /\ walk2' = IF walk2.err[Root] # Nil
                THEN [walk2 EXCEPT !.aborted = TRUE]
                ELSE [walk2 EXCEPT !.pc = "wait"]
  /\ UNCHANGED frameW2

\* wg.Wait()
W2Wait ==
  /\ W2Alive /\ walk2.pc = "wait"
  /\ W2WaitReturns
  /\ walk2' = [walk2 EXCEPT !.pc = "closein"]
  /\ UNCHANGED frameW2

\* close(in)
W2CloseIn ==
  /\ W2Alive /\ walk2.pc = "closein"
  /\ walk2' = [walk2 EXCEPT !.inClosed = TRUE, !.pc = "drain", !.i = 0]
  /\ UNCHANGED frameW2

\* One iteration of for i := 0; i < workers; i++ { <-done }.
W2RecvDone ==
  /\ W2Alive /\ walk2.pc = "drain" /\ walk2.i < workers
  /\ walk2.done > 0
  /\ walk2' = [walk2 EXCEPT !.done = @ - 1, !.i = @ + 1]
  /\ UNCHANGED frameW2

\* The loop over done has ended: close(out).
W2CloseOut ==
  /\ W2Alive /\ walk2.pc = "drain" /\ ~(walk2.i < workers)
  /\ walk2' = [walk2 EXCEPT !.outClosed = TRUE, !.pc = "recv"]
  /\ UNCHANGED frameW2

\* result <- hashes meets hashes := <-result on the unbuffered channel result.
W2Deliver ==
  /\ W2Alive /\ walk2.pc = "recv" /\ walk2.cpc = "result"
  /\ walk2' = [walk2 EXCEPT !.final = walk2.hashes, !.cpc = "end", !.pc = "done"]
  /\ UNCHANGED frameW2

\* ------------------------------------------------------------------ collect

\* One iteration of for pair := range out.
W2Collect ==
  /\ W2Alive /\ walk2.cpc = "range"
  /\ walk2.out # <<>>
  /\ walk2' = [walk2 EXCEPT !.hashes = Insert(@, Head(walk2.out)), !.out = Tail(@)]
  /\ UNCHANGED frameW2

\* The range loop ends: out is closed and drained.
W2CollectEnd ==
  /\ W2Alive /\ walk2.cpc = "range"
  /\ walk2.outClosed /\ walk2.out = <<>>
  /\ walk2' = [walk2 EXCEPT !.cpc = "result"]
  /\ UNCHANGED frameW2

\* ------------------------------------------------------------------ walkDir

\* What one call of visit does: wg.Add(1) and go walkDir(p, in) for a
\* directory, in <- p for a file (a panic when in is closed), and, when Walk
\* returns, walkDir's return value.
W2VisitEffect(d, e, w, last) ==
  /\ w.visit.act = "send" => walk2.inClosed \/ Len(walk2.in) < InCap
  /\ IF w.visit.act = "send" /\ walk2.inClosed
       THEN walk2' = [walk2 EXCEPT !.panic = "send on closed channel"]
       ELSE walk2' = [walk2 EXCEPT
              !.wg = IF w.visit.act = "walkDir" THEN @ + 1 ELSE @,
              !.in = IF w.visit.act = "send" THEN Append(@, Path(e)) ELSE @,
              !.fed = IF w.visit.act = "send" THEN [@ EXCEPT ![e] = @ + 1] ELSE @,
              !.dpc = [n \in Dirs |->
                         IF n = d /\ (w.stop \/ last) THEN "done"
                         ELSE IF n = e /\ w.visit.act = "walkDir" THEN "walk"
                         ELSE walk2.dpc[n]],
              !.err[d] = IF w.stop THEN w.ret ELSE Nil,
              !.idx[d] = @ + 1]

\* filepath.Walk(dir, visit) starts: the root is stat'ed, listed and visited.
W2WalkStart(d) ==
  /\ W2Alive /\ walk2.dpc[d] = "walk" /\ walk2.idx[d] = 0
  /\ W2VisitEffect(d, d, W2WalkRoot(d), Entries(d) = <<>>)
  /\ UNCHANGED frameW2

\* filepath.Walk(dir, visit) handles the next entry of dir's listing.
W2WalkEntry(d) ==
  /\ W2Alive /\ walk2.dpc[d] = "walk" /\ walk2.idx[d] \in 1..Len(Entries(d))
  /\ W2VisitEffect(d, Entries(d)[walk2.idx[d]], W2WalkOne(d, Entries(d)[walk2.idx[d]]),
                   walk2.idx[d] = Len(Entries(d)))
  /\ UNCHANGED frameW2

\* The deferred wg.Done() of walkDir.
W2WalkDone(d) ==
  /\ W2Alive /\ walk2.dpc[d] = "done"
  /\ IF walk2.wg = 0
       THEN walk2' = [walk2 EXCEPT !.panic = "sync: negative WaitGroup counter"]
       ELSE walk2' = [walk2 EXCEPT !.wg = @ - 1, !.dpc[d] = "end"]
  /\ UNCHANGED frameW2

\* ------------------------------------------------------------------ process

\* for path := range in receives a path.
W2Take(k) ==
  /\ W2Alive /\ walk2.ppc[k] = "range"
  /\ walk2.in # <<>>
  /\ walk2' = [walk2 EXCEPT !.in = Tail(@), !.path[k] = Head(walk2.in),
                            !.ppc[k] = "hash"]
  /\ UNCHANGED frameW2

\* hashFile(path)
W2Hash(k) ==
  /\ W2Alive /\ walk2.ppc[k] = "hash"
  /\ walk2' = IF HashFatal(W2Node(walk2.path[k]))
                THEN [walk2 EXCEPT !.aborted = TRUE]
                ELSE [walk2 EXCEPT !.ppc[k] = "send"]
  /\ UNCHANGED frameW2

\* out <- hashFile(path): blocks while the buffer is full, panics when closed.
W2Send(k) ==
  /\ W2Alive /\ walk2.ppc[k] = "send"
  /\ walk2.outClosed \/ Len(walk2.out) < workers
  /\ walk2' = IF walk2.outClosed
                THEN [walk2 EXCEPT !.panic = "send on closed channel"]
                ELSE [walk2 EXCEPT !.out = Append(@, HashPair(W2Node(walk2.path[k]))),
                                   !.path[k] = <<>>, !.ppc[k] = "range"]
  /\ UNCHANGED frameW2

\* The range loop of process ends: in is closed and drained.
W2RangeEnd(k) ==
  /\ W2Alive /\ walk2.ppc[k] = "range"
  /\ walk2.inClosed /\ walk2.in = <<>>
  /\ walk2' = [walk2 EXCEPT !.ppc[k] = "done"]
  /\ UNCHANGED frameW2

\* done <- true
W2Done(k) ==
  /\ W2Alive /\ walk2.ppc[k] = "done"
  /\ walk2.done < workers
  /\ walk2' = [walk2 EXCEPT !.done = @ + 1, !.ppc[k] = "end",
                            !.signals[k] = @ + 1]
  /\ UNCHANGED frameW2

\* --------------------------------------------------------------------- Next

NextWalk2 ==
  \/ W2Start \/ W2CheckErr \/ W2Wait \/ W2CloseIn \/ W2RecvDone \/ W2CloseOut
  \/ W2Deliver \/ W2Collect \/ W2CollectEnd
  \/ \E d \in Dirs : W2WalkStart(d) \/ W2WalkEntry(d) \/ W2WalkDone(d)
  \/ \E k \in 1..workers :
       W2Take(k) \/ W2Hash(k) \/ W2Send(k) \/ W2RangeEnd(k) \/ W2Done(k)

Walk2Spec == InitWalk2 /\ [][NextWalk2]_vars

\* ------------------------------------------- walk4a and walk2 on one tree

\* searchTree of walk4a and searchTree of walk2 are called on the same tree,
\* with the same bytes in every file and the same failing system call.
InitBoth ==
  /\ rootName = FS[Root].name /\ deep = FALSE /\ MainIdle
  /\ InitRun /\ fault \in W2Faults
  /\ TwoTreeIdle
  /\ walk2 = [Walk2None EXCEPT !.pc = "start"]

\* The two programs share no state, so each result of one meets each result of
\* the other when walk2 runs after walk4a has returned its index.
NextBoth ==
  \/ Next
  \/ opc = "done" /\ NextWalk2

BothSpec == InitBoth /\ [][NextBoth]_vars

\* ------------------------------------------------------ claims, walk2

\* The number of times path p is listed in index m.
W2Count(m, p) ==
  Cardinality({<<k, j>> \in (DOMAIN m) \X (1..2 * Cardinality(Files)) :
                 j <= Len(m[k]) /\ m[k][j] = p})

\* C30: no goroutine of walk2 ever sends on a closed channel; in is closed only
\* when every walkDir call has ended; a worker signals done at most once, and
\* only when in is closed and empty; out is closed only when searchTree has
\* received a done signal from each of the workers, all of which have ended;
\* and the index searchTree returns lists each path as often as it was sent on
\* in, at most once, under the digest of its file.
C30_ShutdownOrderSafe ==
  /\ walk2.panic = "none"
  /\ walk2.inClosed =>
       /\ walk2.wg = 0
       /\ \A d \in Dirs : walk2.dpc[d] \in {"none", "end"}
  /\ \A k \in 1..workers :
       /\ walk2.signals[k] <= 1
       /\ walk2.signals[k] = 1 <=> walk2.ppc[k] = "end"
       /\ walk2.ppc[k] \in {"done", "end"} => walk2.inClosed /\ walk2.in = <<>>
  /\ walk2.outClosed =>
       /\ walk2.i = workers /\ walk2.done = 0
       /\ \A k \in 1..workers : walk2.ppc[k] = "end" /\ walk2.signals[k] = 1
  /\ walk2.pc = "done" =>
       \A f \in Files :
         /\ walk2.fed[f] <= 1
         /\ W2Count(walk2.final, Path(f)) = walk2.fed[f]
         /\ \A h \in DOMAIN walk2.final :
              Path(f) \in Range(walk2.final[h]) => h = MD5Sum(f)

\* C30 witness: searchTree has returned an index that lists r/a/x and r/y, and
\* every worker has signalled done.
C30_Witness ==
  /\ walk2.pc = "done"
  /\ walk2.fed["x"] = 1 /\ walk2.fed["y"] = 1
  /\ W2Count(walk2.final, Path("x")) = 1 /\ W2Count(walk2.final, Path("y")) = 1
  /\ \A k \in 1..workers : walk2.signals[k] = 1

\* C31: on two distinct trees no walkDir call of one search is made on the root
\* of the other, and the maps main receives share no path: no key of dir1Hashes
\* is in a list of dir2Hashes.
C31_NeverDescendsIntoOtherRoot ==
  NodeOf(main.searchDir1) # NodeOf(main.searchDir2) =>
    /\ \A s \in 1..2 : task[s][NodeOf(Other(s))].pc = "none"
    /\ main.pc \in {"report", "done"} =>
         DOMAIN main.dir1Hashes \cap
           UNION {Range(main.dir2Hashes[h]) : h \in DOMAIN main.dir2Hashes} = {}

\* Indices m1 and m2 hold the same groups, whatever the order in each list.
SameIndex(m1, m2) ==
  /\ DOMAIN m1 = DOMAIN m2
  /\ \A k \in DOMAIN m1 :
       Range(m1[k]) = Range(m2[k]) /\ Len(m1[k]) = Len(m2[k])

\* C32: run on the same tree, whenever searchTree of walk4a and searchTree of
\* walk2 both return, their indices have the same keys and under each key the
\* same paths, each as often, in any order.
C32_SameIndexUpToOrder ==
  opc = "done" /\ walk2.pc = "done" => SameIndex(final, walk2.final)

\* C32 witness: both have returned an index with r/a/x and r/y in one group,
\* listed in different orders.
C32_Witness ==
  /\ opc = "done" /\ walk2.pc = "done"
  /\ \E k \in DOMAIN final :
       final[k] = <<Path("x"), Path("y")>> /\ walk2.final[k] = <<Path("y"), Path("x")>>

====
